---- MODULE Spec2Model ----
(***************************************************************************)
(* Model of the reflection helper of fulfillment-cli: the schema scanner,  *)
(* the type registry (Helper) and the generic CRUD dispatch of the object  *)
(* descriptors (ObjectHelper).                                             *)
(*                                                                         *)
(* Strings whose characters matter (type names, aliases, lookup tokens)    *)
(* are sequences of ASCII codes, so that Go's byte-wise comparison,        *)
(* strings.ToLower and strings.EqualFold are computed, not assumed.        *)
(***************************************************************************)
EXTENDS Integers, Sequences, FiniteSets, TLC

(***************************************************************************)
(* Bounds of the model.                                                    *)
(***************************************************************************)
\* Largest number of goroutines that share one Helper.
MaxCallers == 2

Goroutines == 1..MaxCallers

(***************************************************************************)
(* Strings.                                                                *)
(***************************************************************************)
\* Package names: "p" stands for private.v1, "f" for fulfillment.v1, "x" for
\* a package that is linked into the binary but never enabled.
PkgP == <<112>>
PkgF == <<102>>
PkgX == <<120>>

\* Short type names: "Hub", "Hubs", "Boss", "Key".
NameHub == <<72, 117, 98>>
NameHubs == <<72, 117, 98, 115>>
NameBoss == <<66, 111, 115, 115>>
NameKey == <<75, 101, 121>>

\* One character of strings.ToLower on ASCII text.
LowerChar(c) == IF c >= 65 /\ c <= 90 THEN c + 32 ELSE c

\* One character of strings.ToUpper on ASCII text.
UpperChar(c) == IF c >= 97 /\ c <= 122 THEN c - 32 ELSE c

ToLower(s) == [i \in 1..Len(s) |-> LowerChar(s[i])]

ToUpper(s) == [i \in 1..Len(s) |-> UpperChar(s[i])]

\* strings.EqualFold restricted to ASCII text: equality under simple case folding.
EqualFold(a, b) ==
    /\ Len(a) = Len(b)
    /\ \A i \in 1..Len(a) : LowerChar(a[i]) = LowerChar(b[i])

\* Go's < on strings: byte-wise lexicographic order.
StrLess(a, b) ==
    \E i \in 1..(Len(a) + 1) :
        /\ \A j \in 1..(i - 1) : j <= Len(b) /\ a[j] = b[j]
        /\ i <= Len(b)
        /\ (i > Len(a) \/ a[i] < b[i])

\* protoreflect.FullName of a message: package, a dot, the short name.
FullName(t) == t.pkg \o <<46>> \o t.name

\* pluralize.Client.Plural for regular nouns: "ss" -> "sses", a trailing "s"
\* is kept, anything else gets an "s".
Plural(w) ==
    LET n == Len(w) IN
    IF n >= 2 /\ LowerChar(w[n]) = 115 /\ LowerChar(w[n - 1]) = 115 THEN w \o <<101, 115>>
    ELSE IF n >= 1 /\ LowerChar(w[n]) = 115 THEN w
    ELSE w \o <<115>>

(***************************************************************************)
(* Descriptors of the schema catalog.                                      *)
(***************************************************************************)
MethodNames == {"Get", "List", "Create", "Update", "Delete"}

Cards == {"optional", "required", "repeated"}

Kinds == {"string", "int32", "message"}

\* The message type of a field that is not of message kind.
NoType == [pkg |-> <<>>, name |-> <<>>]

\* The nil FieldDescriptor.
NoField == [card |-> "none", kind |-> "none", msg |-> NoType]

Field(card, kind, msg) == [card |-> card, kind |-> kind, msg |-> msg]

\* messageDesc.Fields().ByName(name): the field, or nil.
ByName(message, name) ==
    IF name \in DOMAIN message THEN message[name] ELSE NoField

getIdField(message) ==
    LET fieldDesc == ByName(message, "id") IN
    IF fieldDesc = NoField THEN NoField
    ELSE IF fieldDesc.card # "optional" THEN NoField
    ELSE IF fieldDesc.kind # "string" THEN NoField
    ELSE fieldDesc

getObjectField(message) ==
    LET fieldDesc == ByName(message, "object") IN
    IF fieldDesc = NoField THEN NoField
    ELSE IF fieldDesc.card # "optional" THEN NoField
    ELSE IF fieldDesc.kind # "message" THEN NoField
    ELSE fieldDesc

getFilterField(message) ==
    LET fieldDesc == ByName(message, "filter") IN
    IF fieldDesc = NoField THEN NoField
    ELSE IF fieldDesc.card = "repeated" THEN NoField
    ELSE IF fieldDesc.kind # "string" THEN NoField
    ELSE fieldDesc

getLimitField(message) ==
    LET fieldDesc == ByName(message, "limit") IN
    IF fieldDesc = NoField THEN NoField
    ELSE IF fieldDesc.card = "repeated" THEN NoField
    ELSE IF fieldDesc.kind # "int32" THEN NoField
    ELSE fieldDesc

getItemsField(message) ==
    LET fieldDesc == ByName(message, "items") IN
    IF fieldDesc = NoField THEN NoField
    ELSE IF fieldDesc.card # "repeated" THEN NoField
    ELSE IF fieldDesc.kind # "message" THEN NoField
    ELSE fieldDesc

getTotalField(message) ==
    LET fieldDesc == ByName(message, "total") IN
    IF fieldDesc = NoField THEN NoField
    ELSE IF fieldDesc.card = "repeated" THEN NoField
    ELSE IF fieldDesc.kind # "int32" THEN NoField
    ELSE fieldDesc

\* makeMethodPath: "/<service>/<method>".
makeMethodPath(service, method) == <<service.name, method>>

(***************************************************************************)
(* Schema scanner.                                                         *)
(***************************************************************************)
\* What the scan of one service ends with: the service is skipped, an object
\* helper is appended, or the goroutine panics.
NoHelper == [service |-> "none"]

Skipped == [outcome |-> "skip", helper |-> NoHelper]

Panicked == [outcome |-> "panic", helper |-> NoHelper]

\* Helper.makeTemplate: messageType.New(), the message whose fields all have
\* their zero values. A message is the record of its fields.
makeTemplate(fields) ==
    [ f \in fields |->
        IF f \in {"limit", "total"} THEN 0
        ELSE IF f = "items" THEN <<>>
        ELSE IF f = "object" THEN [id |-> "", name |-> ""]
        ELSE "" ]

\* The ObjectHelper literal built at the end of scanService.
MakeHelper(service, objectDesc, getId, getObject, listFilter, listLimit, listItems, listTotal, createIn, createOut, updateIn, updateOut, deleteId) ==
    [ service |-> service.name,
      descriptor |-> objectDesc,
      singular |-> ToLower(objectDesc.name),
      plural |-> ToLower(Plural(objectDesc.name)),
      template |-> makeTemplate({"id", "name"}),
      get |-> [path |-> makeMethodPath(service, "Get"),
               request |-> makeTemplate({"id"}), response |-> makeTemplate({"object"}),
               id |-> getId, object |-> getObject],
      list |-> [path |-> makeMethodPath(service, "List"),
                request |-> makeTemplate({"filter", "limit"}),
                response |-> makeTemplate({"items", "total"}),
                filter |-> listFilter, limit |-> listLimit, items |-> listItems,
                total |-> listTotal],
      create |-> [path |-> makeMethodPath(service, "Create"),
                  request |-> makeTemplate({"object"}), response |-> makeTemplate({"object"}),
                  in |-> createIn, out |-> createOut],
      update |-> [path |-> makeMethodPath(service, "Update"),
                  request |-> makeTemplate({"object"}), response |-> makeTemplate({"object"}),
                  in |-> updateIn, out |-> updateOut],
      delete |-> [path |-> makeMethodPath(service, "Delete"),
                  request |-> makeTemplate({"id"}), response |-> makeTemplate({}),
                  id |-> deleteId] ]

\* The checks of scanService that follow the read of the managed type.
scanServiceRest(service, getRequestIdFieldDesc, getResponseObjectFieldDesc) ==
    LET methodDescs == service.methods
        listDesc == methodDescs["List"]
        createDesc == methodDescs["Create"]
        updateDesc == methodDescs["Update"]
        deleteDesc == methodDescs["Delete"]
        objectDesc == getResponseObjectFieldDesc.msg
        listRequestFilterFieldDesc == getFilterField(listDesc.input)
        listRequestLimitFieldDesc == getLimitField(listDesc.input)
        listResponseItemsFieldDesc == getItemsField(listDesc.output)
        listResponseTotalFieldDesc == getTotalField(listDesc.output)
        createRequestObjectFieldDesc == getObjectField(createDesc.input)
        createResponseObjectFieldDesc == getObjectField(createDesc.output)
        updateRequestObjectFieldDesc == getObjectField(updateDesc.input)
        updateResponseObjectFieldDesc == getObjectField(updateDesc.output)
        deleteRequestIdFieldDesc == getIdField(deleteDesc.input)
    IN  IF listRequestFilterFieldDesc = NoField THEN Skipped
        ELSE IF listResponseItemsFieldDesc = NoField THEN Skipped
        ELSE IF listResponseItemsFieldDesc.msg # objectDesc THEN Skipped
        ELSE IF createRequestObjectFieldDesc = NoField THEN Skipped
        ELSE IF createRequestObjectFieldDesc.msg # objectDesc THEN Skipped
        ELSE IF createResponseObjectFieldDesc = NoField THEN Skipped
        ELSE IF createResponseObjectFieldDesc.msg # objectDesc THEN Skipped
        ELSE IF updateRequestObjectFieldDesc = NoField THEN Skipped
        ELSE IF updateRequestObjectFieldDesc.msg # objectDesc THEN Skipped
        ELSE IF updateResponseObjectFieldDesc = NoField THEN Skipped
        ELSE IF updateResponseObjectFieldDesc.msg # objectDesc THEN Skipped
        ELSE IF deleteRequestIdFieldDesc = NoField THEN Skipped
        ELSE [ outcome |-> "add",
               helper |-> MakeHelper(service, objectDesc, getRequestIdFieldDesc,
                                     getResponseObjectFieldDesc, listRequestFilterFieldDesc,
                                     listRequestLimitFieldDesc, listResponseItemsFieldDesc,
                                     listResponseTotalFieldDesc, createRequestObjectFieldDesc,
                                     createResponseObjectFieldDesc, updateRequestObjectFieldDesc,
                                     updateResponseObjectFieldDesc, deleteRequestIdFieldDesc) ]

\* Helper.scanService. The result of getObjectField on the Get response is used
\* without a nil check: Message() on the nil descriptor panics.
scanService(service) ==
    LET methodDescs == service.methods IN
    IF "List" \notin DOMAIN methodDescs THEN Skipped
    ELSE IF "Get" \notin DOMAIN methodDescs THEN Skipped
    ELSE IF "Create" \notin DOMAIN methodDescs THEN Skipped
    ELSE IF "Update" \notin DOMAIN methodDescs THEN Skipped
    ELSE IF "Delete" \notin DOMAIN methodDescs THEN Skipped
    ELSE LET getDesc == methodDescs["Get"]
             getRequestIdFieldDesc == getIdField(getDesc.input)
             getResponseObjectFieldDesc == getObjectField(getDesc.output)
         IN  IF getRequestIdFieldDesc = NoField THEN Skipped
             ELSE IF getResponseObjectFieldDesc = NoField THEN Panicked
             ELSE scanServiceRest(service, getRequestIdFieldDesc, getResponseObjectFieldDesc)

\* The loop of scanFile over the services of one file, from service i on:
\* the helpers appended so far, and whether a service made the scan panic.
RECURSIVE scanServices(_, _, _)
scanServices(services, i, acc) ==
    IF i > Len(services) THEN [helpers |-> acc, panicked |-> FALSE]
    ELSE LET r == scanService(services[i]) IN
         IF r.outcome = "panic" THEN [helpers |-> acc, panicked |-> TRUE]
         ELSE IF r.outcome = "add" THEN scanServices(services, i + 1, Append(acc, r.helper))
         ELSE scanServices(services, i + 1, acc)

\* Helper.scanFile: a file of a package that is not enabled is ignored.
scanFile(packages, fileDesc, acc) ==
    IF fileDesc.pkg \notin DOMAIN packages THEN [helpers |-> acc, panicked |-> FALSE]
    ELSE scanServices(fileDesc.services, 1, acc)

\* h.packages[pkg]: a Go map read, zero for a package without an order.
PackageOrder(packages, pkg) == IF pkg \in DOMAIN packages THEN packages[pkg] ELSE 0

\* Mutant of HelperLess: the package order is left out of the comparison.
HelperLessByName(packages, helperI, helperJ) ==
    StrLess(FullName(helperI.descriptor), FullName(helperJ.descriptor))

\* The less function handed to sort.Slice in Helper.scan.
HelperLess(packages, helperI, helperJ) ==
    LET nameI == FullName(helperI.descriptor)
        nameJ == FullName(helperJ.descriptor)
        orderI == PackageOrder(packages, helperI.descriptor.pkg)
        orderJ == PackageOrder(packages, helperJ.descriptor.pkg)
    IN  IF orderI # orderJ THEN orderI < orderJ ELSE StrLess(nameI, nameJ)

\* The sequences sort.Slice may leave: sort.Slice is not stable, so any
\* arrangement of the same helpers in which no element is less than an
\* earlier one.
SortedArrangements(packages, hs) ==
    { [i \in 1..Len(hs) |-> hs[p[i]]] :
        p \in { q \in [1..Len(hs) -> 1..Len(hs)] :
                  /\ \A i, j \in 1..Len(hs) : i # j => q[i] # q[j]
                  /\ \A i, j \in 1..Len(hs) :
                        i < j => ~HelperLess(packages, hs[q[j]], hs[q[i]]) } }

(***************************************************************************)
(* The catalogs the model is run on.                                       *)
(***************************************************************************)
TypeHubP == [pkg |-> PkgP, name |-> NameHub]
TypeHubF == [pkg |-> PkgF, name |-> NameHub]
TypeHubsF == [pkg |-> PkgF, name |-> NameHubs]
TypeBossF == [pkg |-> PkgF, name |-> NameBoss]
TypeKeyF == [pkg |-> PkgF, name |-> NameKey]
TypeHubX == [pkg |-> PkgX, name |-> NameHub]

Method(input, output) == [input |-> input, output |-> output]

\* A service that follows the convention for managed type t, with the
\* optional limit and total fields.
GoodService(name, pkg, t) ==
    [ name |-> name,
      pkg |-> pkg,
      methods |->
        [ Get |-> Method([id |-> Field("optional", "string", NoType)],
                         [object |-> Field("optional", "message", t)]),
          List |-> Method([filter |-> Field("optional", "string", NoType),
                           limit |-> Field("optional", "int32", NoType)],
                          [items |-> Field("repeated", "message", t),
                           total |-> Field("optional", "int32", NoType)]),
          Create |-> Method([object |-> Field("optional", "message", t)],
                            [object |-> Field("optional", "message", t)]),
          Update |-> Method([object |-> Field("optional", "message", t)],
                            [object |-> Field("optional", "message", t)]),
          Delete |-> Method([id |-> Field("optional", "string", NoType)],
                            <<>>) ] ]

\* The places of a service that scanService reads: method, side, field name.
Slots ==
    { <<"Get", "input", "id">>, <<"Get", "output", "object">>,
      <<"List", "input", "filter">>, <<"List", "input", "limit">>,
      <<"List", "output", "items">>, <<"List", "output", "total">>,
      <<"Create", "input", "object">>, <<"Create", "output", "object">>,
      <<"Update", "input", "object">>, <<"Update", "output", "object">>,
      <<"Delete", "input", "id">> }

\* Every field a slot may hold.
FieldShapes ==
    { Field(c, k, NoType) : c \in Cards, k \in {"string", "int32"} }
    \cup { Field(c, "message", t) : c \in Cards, t \in {TypeHubF, TypeKeyF} }

WithoutMethod(service, m) ==
    [service EXCEPT !.methods = [x \in (DOMAIN @) \ {m} |-> @[x]]]

WithField(service, slot, fd) ==
    LET message == service.methods[slot[1]][slot[2]]
        changed == [n \in (DOMAIN message) \cup {slot[3]} |->
                      IF n = slot[3] THEN fd ELSE message[n]]
    IN  [service EXCEPT !.methods[slot[1]][slot[2]] = changed]

WithoutField(service, slot) ==
    LET message == service.methods[slot[1]][slot[2]]
        changed == [n \in (DOMAIN message) \ {slot[3]} |-> message[n]]
    IN  [service EXCEPT !.methods[slot[1]][slot[2]] = changed]

\* The service itself and every service that differs from it in one method
\* or in one field.
Variants(service) ==
    {service}
    \cup { WithoutMethod(service, m) : m \in MethodNames }
    \cup { WithoutField(service, slot) : slot \in Slots }
    \cup { WithField(service, slot, fd) : slot \in Slots, fd \in FieldShapes }

File(pkg, services) == [pkg |-> pkg, services |-> services]

\* Catalogs for the shape rules: one service of any shape, alone or beside a
\* conforming service, in either order, in one file or in two, in an enabled
\* package or not.
ShapeCatalogs ==
    LET other == GoodService("S2", PkgF, TypeKeyF) IN
    UNION { { <<File(pkg, <<v>>)>>,
              <<File(pkg, <<v>>), File(PkgF, <<other>>)>>,
              <<File(PkgF, <<other>>), File(pkg, <<v>>)>>,
              <<File(pkg, <<v, other>>)>>,
              <<File(pkg, <<other, v>>)>> } :
            pkg \in {PkgF, PkgX}, v \in Variants(GoodService("S1", PkgF, TypeHubF)) }

\* A service that makes the scan panic: every method, a valid Get request, no
\* object field in the Get response.
BrokenService(name, pkg, t) ==
    WithoutField(GoodService(name, pkg, t), <<"Get", "output", "object">>)

\* Catalogs for the registry: conforming services in files of their own, the
\* managed types drawn with repetition from types that share short names,
\* aliases and packages.
RegistryTypes == {TypeHubP, TypeHubF, TypeHubsF, TypeBossF, TypeHubX}

ServicePkg(t) == IF t.pkg = PkgX THEN PkgF ELSE t.pkg

RegistryCatalogs ==
    { <<File(ServicePkg(t1), <<GoodService("S1", ServicePkg(t1), t1)>>),
        File(ServicePkg(t2), <<GoodService("S2", ServicePkg(t2), t2)>>)>> :
        t1 \in RegistryTypes, t2 \in RegistryTypes }
    \cup
    { <<File(ServicePkg(t1), <<GoodService("S1", ServicePkg(t1), t1)>>),
        File(ServicePkg(t2), <<GoodService("S2", ServicePkg(t2), t2)>>),
        File(ServicePkg(t3), <<GoodService("S3", ServicePkg(t3), t3)>>)>> :
        t1 \in RegistryTypes, t2 \in RegistryTypes, t3 \in RegistryTypes }

\* The package orders given to AddPackage.
PackageOrders ==
    { [p \in {PkgP, PkgF} |-> IF p = PkgP THEN 0 ELSE 1],
      [p \in {PkgP, PkgF} |-> IF p = PkgP THEN 1 ELSE 2],
      [p \in {PkgP, PkgF} |-> IF p = PkgP THEN 2 ELSE 1],
      [p \in {PkgF} |-> 1] }

\* The lookup tokens of a type: its full name, its aliases, and each of them
\* in upper case.
TokensOf(t) ==
    LET base == {FullName(t), ToLower(t.name), ToLower(Plural(t.name))}
    IN  base \cup {ToUpper(x) : x \in base}

\* A token that names nothing: "?".
NoSuchToken == <<63>>

RegistryTokens == UNION {TokensOf(t) : t \in RegistryTypes} \cup {NoSuchToken}

\* Catalogs for a Helper that several goroutines share: two types with the
\* same aliases, and a service that makes the scan panic before or after a
\* conforming one.
SharedCatalogs ==
    { <<File(PkgF, <<GoodService("S1", PkgF, TypeHubF)>>),
        File(PkgP, <<GoodService("S2", PkgP, TypeHubP)>>)>>,
      <<File(PkgF, <<GoodService("S1", PkgF, TypeHubF)>>),
        File(PkgF, <<BrokenService("S2", PkgF, TypeBossF)>>),
        File(PkgP, <<GoodService("S3", PkgP, TypeHubP)>>)>>,
      <<File(PkgF, <<BrokenService("S1", PkgF, TypeBossF)>>),
        File(PkgP, <<GoodService("S2", PkgP, TypeHubP)>>)>> }

\* What a run starts from: the goroutines that share the Helper, the linked
\* catalog in the order RangeFiles visits it, the package orders, and the
\* tokens the callers look up.
Config(n, c, p, t) == [callers |-> 1..n, catalog |-> c, packages |-> p, tokens |-> t]

Configs ==
    { Config(1, c, [p \in {PkgF} |-> 1], {ToUpper(NameHub), NoSuchToken}) : c \in ShapeCatalogs }
    \cup { Config(1, c, p, RegistryTokens) : c \in RegistryCatalogs, p \in PackageOrders }
    \cup { Config(n, c, [p \in {PkgP, PkgF} |-> IF p = PkgP THEN 0 ELSE 1], {ToUpper(NameHub)}) :
             n \in 2..MaxCallers, c \in SharedCatalogs }

(***************************************************************************)
(* Type registry: the listings and the lookup.                             *)
(***************************************************************************)
\* sort.Strings over the keys of a set: the strictly increasing sequence.
SortStrings(set) ==
    CHOOSE q \in [1..Cardinality(set) -> set] :
        \A i, j \in 1..Cardinality(set) : i < j => StrLess(q[i], q[j])

\* The body of Helper.Names: one entry per helper, in the order of h.helpers.
HelperNames(hs) == [i \in 1..Len(hs) |-> FullName(hs[i].descriptor)]

\* The body of Helper.Singulars.
HelperSingulars(hs) == SortStrings({hs[i].singular : i \in 1..Len(hs)})

\* The body of Helper.Plurals.
HelperPlurals(hs) == SortStrings({hs[i].plural : i \in 1..Len(hs)})

\* Mutant of LookupMatches: the aliases are compared with ==.
LookupMatchesExact(helper, objectType) ==
    \/ objectType = FullName(helper.descriptor)
    \/ objectType = helper.singular
    \/ objectType = helper.plural

\* Whether the loop of Helper.Lookup returns at helper.
LookupMatches(helper, objectType) ==
    \/ objectType = FullName(helper.descriptor)
    \/ EqualFold(objectType, helper.singular)
    \/ EqualFold(objectType, helper.plural)

\* The body of Helper.Lookup: the index of the helper it returns a pointer to,
\* 0 for nil.
HelperLookup(hs, objectType) ==
    LET hits == {i \in 1..Len(hs) : LookupMatches(hs[i], objectType)}
    IN  IF hits = {} THEN 0 ELSE CHOOSE i \in hits : \A j \in hits : i <= j

(***************************************************************************)
(* Object descriptors: the generic CRUD dispatch.                          *)
(***************************************************************************)
\* Largest number of calls of connection.Invoke in one run.
MaxInvokes == 2

\* Largest number of items in a List response.
MaxItems == 2

\* Largest total a List response reports.
MaxTotal == 3

\* The nil error.
NoErr == [code |-> "OK", context |-> <<>>]

\* The errors connection.Invoke returns: gRPC status errors.
TransportErrors == { [code |-> k, context |-> <<>>] : k \in {"NotFound", "Unavailable", "Canceled"} }

\* fmt.Errorf("<message>: %w", err): the error keeps its status code.
Wrap(message, err) == [err EXCEPT !.context = <<message>> \o @]

\* Objects of a managed type: the id and the name of the metadata.
Objects == { [id |-> "a", name |-> "x"], [id |-> "b", name |-> ""] }

\* What Get of an unset message field yields: the empty message.
EmptyObject == [id |-> "", name |-> ""]

\* The nil proto.Message.
NilObject == [id |-> "nil", name |-> "nil"]

Ids == {"a", "b"}

Filters == {"", "this.id == 'a'"}

Limits == {0, 1}

ItemLists == UNION { [1..n -> Objects] : n \in 0..MaxItems }

\* What the server answers to Invoke: an error that leaves the response
\* empty, or a response.
NoReply == [err |-> NoErr, object |-> EmptyObject, items |-> <<>>, total |-> 0]

ErrorReplies == { [NoReply EXCEPT !.err = e] : e \in TransportErrors }

ObjectReplies == ErrorReplies \cup { [NoReply EXCEPT !.object = o] : o \in Objects }

EmptyReplies == ErrorReplies \cup {NoReply}

\* The List response of a type whose response message has an int32 total
\* carries one; any other List response carries none.
ListReplies(helper) ==
    ErrorReplies
    \cup { [NoReply EXCEPT !.items = items, !.total = total] :
             items \in ItemLists,
             total \in (IF helper.list.total # NoField THEN 0..MaxTotal ELSE {0}) }

Invocation(path, request) == [path |-> path, request |-> request]

NoInvoke == Invocation(<<"none", "none">>, <<>>)

NoOut ==
    [ op |-> "none", helper |-> 0, args |-> <<>>, reply |-> NoReply, err |-> NoErr,
      object |-> NilObject, items |-> <<>>, total |-> 0 ]

\* proto.Clone: a new message with the same content. What is set on the
\* clone is not set on the message it was made from.
Clone(message) == message

\* Mutant of ObjectList: the total is always the number of items.
ObjectListCounting(h, options, reply) ==
    [ sent |-> <<Invocation(h.list.path, [filter |-> options.Filter, limit |-> options.Limit])>>,
      err |-> reply.err,
      object |-> NilObject,
      items |-> IF reply.err # NoErr THEN <<>> ELSE reply.items,
      total |-> IF reply.err # NoErr THEN 0 ELSE Len(reply.items),
      after |-> h ]

\* Mutant of ObjectList: the filter and the limit are set on the template of
\* the request, and the template is what is sent.
ObjectListInPlace(h, options, reply) ==
    LET request == [ h.list.request EXCEPT
                       !.filter = IF options.Filter # "" THEN options.Filter ELSE @,
                       !.limit = IF options.Limit > 0 /\ h.list.limit # NoField
                                 THEN options.Limit ELSE @ ]
    IN  [ sent |-> <<Invocation(h.list.path, request)>>,
          err |-> reply.err,
          object |-> NilObject,
          items |-> IF reply.err # NoErr THEN <<>> ELSE reply.items,
          total |-> IF reply.err # NoErr THEN 0
                    ELSE IF h.list.total # NoField THEN reply.total
                    ELSE Len(reply.items),
          after |-> [h EXCEPT !.list.request = request] ]

\* ObjectHelper.List: what it sends and what it returns.
ObjectList(h, options, reply) ==
    LET request == [ Clone(h.list.request) EXCEPT
                       !.filter = IF options.Filter # "" THEN options.Filter ELSE @,
                       !.limit = IF options.Limit > 0 /\ h.list.limit # NoField
                                 THEN options.Limit ELSE @ ]
    IN  [ sent |-> <<Invocation(h.list.path, request)>>,
          err |-> reply.err,
          object |-> NilObject,
          items |-> IF reply.err # NoErr THEN <<>> ELSE reply.items,
          total |-> IF reply.err # NoErr THEN 0
                    ELSE IF h.list.total # NoField THEN reply.total
                    ELSE Len(reply.items),
          after |-> h ]

\* ObjectHelper.Instance: a clone of the template of the type.
ObjectInstance(h) ==
    [ sent |-> <<>>, err |-> NoErr, object |-> Clone(h.template), items |-> <<>>, total |-> 0,
      after |-> h ]

\* ObjectHelper.Get.
ObjectGet(h, id, reply) ==
    [ sent |-> <<Invocation(h.get.path, [Clone(h.get.request) EXCEPT !.id = id])>>,
      err |-> reply.err,
      object |-> IF reply.err # NoErr THEN NilObject ELSE reply.object,
      items |-> <<>>,
      total |-> 0,
      after |-> h ]

\* Mutant of ObjectCreate: a failed call is sent a second time.
ObjectCreateRetrying(h, object, reply) ==
    LET call == Invocation(h.create.path, [object |-> object]) IN
    [ sent |-> IF reply.err # NoErr THEN <<call, call>> ELSE <<call>>,
      err |-> IF reply.err # NoErr THEN Wrap("failed to create object", reply.err) ELSE NoErr,
      object |-> reply.object,
      items |-> <<>>,
      total |-> 0,
      after |-> h ]

\* ObjectHelper.Create: the error is wrapped, and the object of the response
\* is read whether the call failed or not.
ObjectCreate(h, object, reply) ==
    [ sent |-> <<Invocation(h.create.path, [Clone(h.create.request) EXCEPT !.object = object])>>,
      err |-> IF reply.err # NoErr THEN Wrap("failed to create object", reply.err) ELSE NoErr,
      object |-> reply.object,
      items |-> <<>>,
      total |-> 0,
      after |-> h ]

\* Mutant of ObjectUpdate: the error of the transport is returned as it is.
ObjectUpdateUnwrapped(h, object, reply) ==
    [ sent |-> <<Invocation(h.update.path, [object |-> object])>>,
      err |-> reply.err,
      object |-> reply.object,
      items |-> <<>>,
      total |-> 0,
      after |-> h ]

\* ObjectHelper.Update.
ObjectUpdate(h, object, reply) ==
    [ sent |-> <<Invocation(h.update.path, [Clone(h.update.request) EXCEPT !.object = object])>>,
      err |-> IF reply.err # NoErr THEN Wrap("failed to update object", reply.err) ELSE NoErr,
      object |-> reply.object,
      items |-> <<>>,
      total |-> 0,
      after |-> h ]

\* Mutant of ObjectDelete: the error is replaced by a new one made of its text.
ObjectDeleteOpaque(h, id, reply) ==
    [ sent |-> <<Invocation(h.delete.path, [id |-> id])>>,
      err |-> IF reply.err # NoErr
              THEN [code |-> "Unknown", context |-> <<"failed to delete object">>]
              ELSE NoErr,
      object |-> NilObject,
      items |-> <<>>,
      total |-> 0,
      after |-> h ]

\* ObjectHelper.Delete.
ObjectDelete(h, id, reply) ==
    [ sent |-> <<Invocation(h.delete.path, [Clone(h.delete.request) EXCEPT !.id = id])>>,
      err |-> reply.err,
      object |-> NilObject,
      items |-> <<>>,
      total |-> 0,
      after |-> h ]

\* What the delete command does with the error of ObjectHelper.Delete: the
\* text it prints, its exit code and the error it returns.
DeleteReport(err) ==
    IF err = NoErr THEN [printed |-> "Deleted", exit |-> 0, err |-> NoErr]
    ELSE IF err.code = "NotFound"
         THEN [printed |-> "doesn't exist", exit |-> 1, err |-> NoErr]
    ELSE [printed |-> "", exit |-> 1, err |-> Wrap("failed to delete", err)]

\* Catalogs for the dispatch: a type with limit and total, beside a type that
\* has neither, or whose total is not a non-repeated int32.
CrudCatalogs ==
    LET full == GoodService("S1", PkgF, TypeHubF)
        base == GoodService("S2", PkgF, TypeBossF)
        limit == <<"List", "input", "limit">>
        total == <<"List", "output", "total">>
    IN  { <<File(PkgF, <<full, v>>)>> :
            v \in { WithoutField(WithoutField(base, limit), total),
                    WithField(base, total, Field("optional", "string", NoType)),
                    WithField(base, total, Field("repeated", "int32", NoType)) } }

CrudConfigs ==
    { Config(1, c, [p \in {PkgF} |-> 1], {ToLower(NameHub), ToLower(NameBoss)}) :
        c \in CrudCatalogs }

(***************************************************************************)
(* HelperBuilder.                                                          *)
(***************************************************************************)
\* Largest order AddPackage is given.
MaxOrder == 2

\* The maps from package names to orders that the builder can hold; the nil
\* map and the empty map are the map with no keys.
PackageMaps == UNION { [d -> 0..MaxOrder] : d \in SUBSET {PkgP, PkgF} }

\* NewHelper: the empty builder.
NewHelper == [logger |-> "nil", connection |-> "nil", packages |-> <<>>]

\* The nil *Helper.
NilHelper ==
    [ logger |-> "nil", packages |-> <<>>, connection |-> "nil", pluralizer |-> "nil",
      scanOnce |-> "nil", helpers |-> "nil" ]

\* b.packages[name] = order, for every name of values.
PutPackages(b, values) ==
    [b EXCEPT !.packages =
        [n \in DOMAIN b.packages \cup DOMAIN values |->
            IF n \in DOMAIN values THEN values[n] ELSE b.packages[n]]]

\* Mutant of BuildHelper: the packages are checked before the logger and the
\* connection.
BuildHelperPackagesFirst(b) ==
    IF DOMAIN b.packages = {}
    THEN [helper |-> NilHelper, err |-> "at least one package is mandatory"]
    ELSE IF b.logger = "nil"
    THEN [helper |-> NilHelper, err |-> "logger is mandatory"]
    ELSE IF b.connection = "nil"
    THEN [helper |-> NilHelper, err |-> "gRPC connection is mandatory"]
    ELSE [ helper |-> [ logger |-> b.logger, packages |-> b.packages,
                        connection |-> b.connection, pluralizer |-> "set",
                        scanOnce |-> "new", helpers |-> <<>> ],
           err |-> "" ]

\* HelperBuilder.Build: the helper and the error it returns.
BuildHelper(b) ==
    IF b.logger = "nil"
    THEN [helper |-> NilHelper, err |-> "logger is mandatory"]
    ELSE IF b.connection = "nil"
    THEN [helper |-> NilHelper, err |-> "gRPC connection is mandatory"]
    ELSE IF DOMAIN b.packages = {}
    THEN [helper |-> NilHelper, err |-> "at least one package is mandatory"]
    ELSE [ helper |-> [ logger |-> b.logger, packages |-> b.packages,
                        connection |-> b.connection, pluralizer |-> "set",
                        scanOnce |-> "new", helpers |-> <<>> ],
           err |-> "" ]

\* What a call of Build left behind: the builder it read and what it returned.
Built(b) == [done |-> TRUE, from |-> b, helper |-> BuildHelper(b).helper, err |-> BuildHelper(b).err]

NotBuilt == [done |-> FALSE, from |-> NewHelper, helper |-> NilHelper, err |-> ""]

(***************************************************************************)
(* Table renderer: types, layouts, expressions.                            *)
(***************************************************************************)
\* Largest number of objects handed to one call of Render.
MaxObjects == 2

\* Largest number of calls of Render on one renderer.
MaxRenders == 2

\* Names of enum values, as texts.
ClusterStateUnspecified == <<67, 76, 85, 83, 84, 69, 82, 95, 83, 84, 65, 84, 69, 95, 85, 78, 83, 80, 69, 67, 73, 70, 73, 69, 68>>   \* "CLUSTER_STATE_UNSPECIFIED"
ClusterStateReady == <<67, 76, 85, 83, 84, 69, 82, 95, 83, 84, 65, 84, 69, 95, 82, 69, 65, 68, 89>>   \* "CLUSTER_STATE_READY"
ClusterStateful == <<67, 76, 85, 83, 84, 69, 82, 95, 83, 84, 65, 84, 69, 70, 85, 76>>   \* "CLUSTER_STATEFUL"
Pending == <<80, 69, 78, 68, 73, 78, 71>>   \* "PENDING"
ModeNone == <<78, 79, 78, 69>>   \* "NONE"
ModeFast == <<70, 65, 83, 84>>   \* "FAST"

\* protoregistry.GlobalTypes, the enum types: the name of each number.
EnumTypes ==
    [ ClusterState |-> (0 :> ClusterStateUnspecified @@ 1 :> ClusterStateReady
                        @@ 2 :> Pending @@ 3 :> ClusterStateful),
      Mode |-> (0 :> ModeNone @@ 1 :> ModeFast) ]

\* protoregistry.GlobalTypes.FindEnumByName: the descriptor, or nil.
NoEnum == <<>>

FindEnumByName(name) == IF name \in DOMAIN EnumTypes THEN EnumTypes[name] ELSE NoEnum

\* protoregistry.GlobalTypes, the message types, by full name.
MessageTypes ==
    [ Hub |-> TypeHubF, Boss |-> TypeBossF, Key |-> TypeKeyF, XHub |-> TypeHubX ]

FindMessageByName(name) == IF name \in DOMAIN MessageTypes THEN MessageTypes[name] ELSE NoType

\* The fields of the message types that the expressions read.
TypeFields(t) ==
    IF t = TypeHubF THEN {"id", "metadata", "state", "boss"} ELSE {"id", "metadata"}

\* A columnLayout.
Column(header, value, type, lookup) ==
    [Header |-> header, Value |-> value, Type |-> type, Lookup |-> lookup]

NameExpr == "has(this.metadata.name)? this.metadata.name: '-'"

DeletedExpr ==
    "has(this.metadata.deletion_timestamp)? string(this.metadata.deletion_timestamp): '-'"

\* An expression that does not parse.
BadExpr == "this."

\* The fields an expression reads; none for one that does not parse.
ExprFields ==
    [ e \in {"this.id", "this.state", "this.boss", NameExpr, DeletedExpr, BadExpr} |->
        CASE e = "this.id" -> {"id"}
          [] e = "this.state" -> {"state"}
          [] e = "this.boss" -> {"boss"}
          [] e = BadExpr -> {}
          [] OTHER -> {"metadata"} ]

\* celEnv.Compile and celEnv.Program on the environment of type t: whether
\* the expression parses and type-checks.
Compiles(expr, t) ==
    /\ expr \in DOMAIN ExprFields
    /\ expr # BadExpr
    /\ ExprFields[expr] \subseteq TypeFields(t)

\* The values of CEL: types.String and types.Int.
StringVal(txt) == [kind |-> "string", s |-> txt, n |-> 0]

IntVal(number) == [kind |-> "int", s |-> "", n |-> number]

\* prg.Eval on an object of the type the environment was made for.
Eval(expr, object) ==
    CASE expr = "this.id" -> StringVal(object.id)
      [] expr = "this.state" -> IntVal(object.state)
      [] expr = "this.boss" -> StringVal(object.boss)
      [] expr = NameExpr -> StringVal(IF object.name # "" THEN object.name ELSE "-")
      [] OTHER -> StringVal(IF object.deleted # "" THEN object.deleted ELSE "-")

\* The embedded tables directory: for each type that has a file, its
\* columns. Three directories, so that a type is seen with several layouts.
LayoutStores ==
    { [ Hub |-> << Column("ID", "this.id", "", FALSE),
                   Column("STATE", "this.state", "ClusterState", FALSE),
                   Column("BOSS", "this.boss", "Boss", TRUE) >>,
        Key |-> << Column("ID", "this.id", "", FALSE),
                   Column("BAD", BadExpr, "", FALSE) >> ],
      [ Hub |-> << Column("BOSS", "this.boss", "Boss", TRUE),
                   Column("MODE", "this.state", "Mode", FALSE),
                   Column("PEER", "this.boss", "Nope", TRUE),
                   Column("RAW", "this.state", "Nope", FALSE),
                   Column("OWNER", "this.boss", "Key", TRUE) >>,
        Key |-> << Column("STATE", "this.state", "ClusterState", FALSE) >> ],
      [ Hub |-> << Column("ID", "this.id", "", FALSE) >> ] }

\* The key of a type in the tables directory and in the registries of types.
TypeKey(t) ==
    IF \E k \in DOMAIN MessageTypes : MessageTypes[k] = t
    THEN CHOOSE k \in DOMAIN MessageTypes : MessageTypes[k] = t
    ELSE "Nope"

\* The messages handed to Render.
Message(t, id, name, deleted, state, boss) ==
    [type |-> t, id |-> id, name |-> name, deleted |-> deleted, state |-> state, boss |-> boss]

RenderObjects ==
    { Message(TypeHubF, "a", "n", "", 1, "k1"),
      Message(TypeHubF, "b", "", "t", 2, "k1"),
      Message(TypeHubF, "c", "n", "", 3, "k2"),
      Message(TypeHubF, "d", "n", "", 7, ""),
      Message(TypeBossF, "a", "n", "", 0, ""),
      Message(TypeBossF, "b", "", "t", 0, ""),
      Message(TypeKeyF, "a", "n", "", 0, ""),
      Message(TypeHubX, "a", "n", "", 0, "") }

ObjectLists == UNION { [1..n -> RenderObjects] : n \in 0..MaxObjects }

\* The lists handed to the calls of Render that follow the first one.
RepeatLists ==
    { <<Message(TypeHubF, "a", "n", "", 1, "k1")>>,
      <<Message(TypeHubF, "c", "n", "", 3, "k2"), Message(TypeHubF, "b", "", "t", 2, "k1")>>,
      <<Message(TypeBossF, "a", "n", "", 0, "")>> }

(***************************************************************************)
(* Table renderer: Render and the rendering of cells.                      *)
(***************************************************************************)
\* What the writer receives for one cell: the text of a string, the digits
\* of a number (-1: none), the text of an enum name.
Cell(str, num, chars) == [str |-> str, num |-> num, chars |-> chars]

TextCell(txt) == Cell(txt, -1, <<>>)

\* The errors of Render: which failure, and the type, the expression and the
\* column header that the message names.
RenderError(kind, type, expr, header) ==
    [kind |-> kind, type |-> type, expr |-> expr, header |-> header]

NoRenderError == RenderError("", <<>>, "", "")

\* The references the lookup columns meet, and what the server answers to
\* the List of one of them.
LookupKeys == {"k1", "k2"}

\* The references lookupName can be given: the full name of a message type
\* that a lookup column names, and a key.
LookupRefs == {FullName(TypeBossF), FullName(TypeKeyF)} \X LookupKeys

LookupReplies ==
    { [NoReply EXCEPT !.err = [code |-> "Unavailable", context |-> <<>>]],
      [NoReply EXCEPT !.err = [code |-> "Canceled", context |-> <<>>]],
      NoReply,
      [NoReply EXCEPT !.items = <<[id |-> "k1", name |-> "x"]>>, !.total = 1],
      [NoReply EXCEPT !.items = <<[id |-> "k2", name |-> "y"], [id |-> "b", name |-> "k2"]>>,
                      !.total = 2] }

Servers == [LookupKeys -> LookupReplies]

\* The servers that differ in what they answer for the references of the
\* messages; no other reference is asked for.
ServersFor(messages) ==
    { server \in Servers :
        \A k \in LookupKeys :
            (\A i \in 1..Len(messages) : messages[i].boss # k) => server[k] = NoReply }

\* Whether the environment of CEL knows the types of the other messages of
\* the list; it matters when there are any.
KnownFor(messages) ==
    IF \E i \in 1..Len(messages) : messages[i].type # messages[1].type THEN BOOLEAN ELSE {TRUE}

\* The filter of lookupName.
LookupFilter(key) ==
    IF key = "k1" THEN "this.id == \"k1\" || this.metadata.name == \"k1\""
    ELSE "this.id == \"k2\" || this.metadata.name == \"k2\""

\* What a call of Render has done so far: the cache, the calls of Invoke,
\* the log, the rows the writer has received (the last one may be unfinished),
\* and how it ended.
Work(cache) ==
    [ cache |-> cache, sent |-> <<>>, logs |-> <<>>, rows |-> <<>>, err |-> NoRenderError,
      panicked |-> FALSE ]

\* fmt.Fprintf to the writer, within the current row.
Write(w, cell) == [w EXCEPT !.rows[Len(w.rows)] = Append(@, cell)]

\* r.logger.Error: the message with the type and the key it is given ("" for
\* a key that is not given).
Log(w, message, type, key) ==
    [w EXCEPT !.logs = Append(@, [message |-> message, type |-> type, key |-> key])]

\* cache[key] = result.
Put(cache, ref, result) ==
    [x \in DOMAIN cache \cup {ref} |-> IF x = ref THEN result ELSE cache[x]]

\* strings.LastIndex(text, "_"), counted from 1; 0 when there is none.
LastIndex(text) ==
    LET at == {i \in 1..Len(text) : text[i] = 95}
    IN  IF at = {} THEN 0 ELSE CHOOSE i \in at : \A j \in at : j <= i

\* strings.HasPrefix.
HasPrefix(text, prefix) ==
    /\ Len(prefix) <= Len(text)
    /\ SubSeq(text, 1, Len(prefix)) = prefix

\* TableRenderer.renderCellEnum. A number that the enum does not have is
\* written as UNKNOWN:<n>, and then the name of the nil value descriptor is
\* read, which panics; so does a slice that starts after the end of the name.
renderCellEnum(w, val, enumDesc) ==
    IF val \notin DOMAIN enumDesc
    THEN [Write(w, Cell("UNKNOWN:", val, <<>>)) EXCEPT !.panicked = TRUE]
    ELSE LET valueTxt == enumDesc[val]
             unspecifiedText == enumDesc[0]
             prefixIndex == LastIndex(unspecifiedText)
         IN  IF prefixIndex # 0 /\ HasPrefix(valueTxt, SubSeq(unspecifiedText, 1, prefixIndex - 1))
             THEN IF prefixIndex > Len(valueTxt)
                  THEN [w EXCEPT !.panicked = TRUE]
                  ELSE Write(w, Cell("", -1, SubSeq(valueTxt, prefixIndex + 1, Len(valueTxt))))
             ELSE Write(w, Cell("", -1, valueTxt))

\* Mutant of lookupName: the cache is not read.
lookupNameUncached(w, hs, server, messageFullName, key) ==
    LET ref == <<messageFullName, key>>
        helper == HelperLookup(hs, messageFullName)
        r == ObjectList(hs[helper], [Filter |-> LookupFilter(key), Limit |-> 0], server[key])
        called == [w EXCEPT !.sent = @ \o r.sent]
    IN  IF helper = 0
        THEN [ w |-> Log([w EXCEPT !.cache = Put(@, ref, key)],
                         "Failed to find object helper for type", messageFullName, ""),
               result |-> key ]
        ELSE IF r.err # NoErr
        THEN [ w |-> Log([called EXCEPT !.cache = Put(@, ref, key)],
                         "Failed to list objects for lookup", messageFullName, key),
               result |-> key ]
        ELSE IF Len(r.items) = 0
        THEN [w |-> [called EXCEPT !.cache = Put(@, ref, key)], result |-> key]
        ELSE [ w |-> [called EXCEPT !.cache = Put(@, ref, r.items[1].name)],
               result |-> r.items[1].name ]

\* TableRenderer.lookupName: the text for a reference, and the cache, the
\* calls and the log after it.
lookupName(w, hs, server, messageFullName, key) ==
    LET ref == <<messageFullName, key>>
        helper == HelperLookup(hs, messageFullName)
        r == ObjectList(hs[helper], [Filter |-> LookupFilter(key), Limit |-> 0], server[key])
        called == [w EXCEPT !.sent = @ \o r.sent]
    IN  IF ref \in DOMAIN w.cache
        THEN [w |-> w, result |-> w.cache[ref]]
        ELSE IF helper = 0
        THEN [ w |-> Log([w EXCEPT !.cache = Put(@, ref, key)],
                         "Failed to find object helper for type", messageFullName, ""),
               result |-> key ]
        ELSE IF r.err # NoErr
        THEN [ w |-> Log([called EXCEPT !.cache = Put(@, ref, key)],
                         "Failed to list objects for lookup", messageFullName, key),
               result |-> key ]
        ELSE IF Len(r.items) = 0
        THEN [w |-> [called EXCEPT !.cache = Put(@, ref, key)], result |-> key]
        ELSE [ w |-> [called EXCEPT !.cache = Put(@, ref, r.items[1].name)],
               result |-> r.items[1].name ]

\* TableRenderer.renderCellLookup.
renderCellLookup(w, hs, server, val, messageDesc) ==
    IF val.s # ""
    THEN LET l == lookupName(w, hs, server, FullName(messageDesc), val.s)
         IN  Write(l.w, TextCell(l.result))
    ELSE Write(w, TextCell("-"))

\* TableRenderer.renderCellAny: the value as fmt prints it.
renderCellAny(w, val) ==
    IF val.kind = "string" THEN Write(w, TextCell(val.s)) ELSE Write(w, Cell("", val.n, <<>>))

\* TableRenderer.renderCell.
renderCell(w, hs, server, col, val) ==
    IF val.kind = "int" /\ col.Type # "" /\ FindEnumByName(col.Type) # NoEnum
    THEN renderCellEnum(w, val.n, FindEnumByName(col.Type))
    ELSE IF val.kind = "int" /\ col.Type # ""
    THEN renderCellAny(Log(w, "Failed to find enum type", <<>>, ""), val)
    ELSE IF /\ val.kind = "string"
            /\ col.Lookup
            /\ col.Type # ""
            /\ FindMessageByName(col.Type) # NoType
    THEN renderCellLookup(w, hs, server, val, FindMessageByName(col.Type))
    ELSE renderCellAny(w, val)

\* TableRenderer.renderRow, from column i on. The program of a column was
\* compiled for the type of the first object; on an object of another type
\* it fails unless the environment knows that type and the type has the
\* fields it reads.
RECURSIVE renderRow(_, _, _, _, _, _, _, _)
renderRow(w, hs, server, known, cols, object, helper, i) ==
    IF i > Len(cols) \/ w.panicked THEN w
    ELSE IF /\ object.type # helper.descriptor
            /\ ~(known /\ ExprFields[cols[i].Value] \subseteq TypeFields(object.type))
    THEN [w EXCEPT !.err = RenderError("failed to evaluate CEL expression",
                                       FullName(helper.descriptor), cols[i].Value,
                                       cols[i].Header)]
    ELSE CHOOSE done \in { renderRow(next, hs, server, known, cols, object, helper, i + 1) :
                              next \in {renderCell(w, hs, server, cols[i],
                                                   Eval(cols[i].Value, object))} } : TRUE

\* The loop of Render over the messages, from message k on.
RECURSIVE renderRows(_, _, _, _, _, _, _, _)
renderRows(w, hs, server, known, cols, messages, helper, k) ==
    IF k > Len(messages) \/ w.panicked \/ w.err # NoRenderError THEN w
    ELSE CHOOSE done \in { renderRows(next, hs, server, known, cols, messages, helper, k + 1) :
                              next \in {renderRow([w EXCEPT !.rows = Append(@, <<>>)], hs,
                                                  server, known, cols, messages[k], helper,
                                                  1)} } : TRUE

\* TableRenderer.renderHeader.
renderHeader(w, cols) ==
    [w EXCEPT !.rows = Append(@, [i \in 1..Len(cols) |-> TextCell(cols[i].Header)])]

\* Mutant of defaultTable: the name comes before the identifier.
defaultTableNameFirst ==
    << Column("NAME", NameExpr, "", FALSE), Column("ID", "this.id", "", FALSE) >>

\* TableRenderer.defaultTable.
defaultTable ==
    << Column("ID", "this.id", "", FALSE), Column("NAME", NameExpr, "", FALSE) >>

\* TableRenderer.loadTable: the columns of the file of the type; the empty
\* list stands for the nil table of a type that has no file.
loadTable(store, helper) ==
    IF TypeKey(helper.descriptor) \in DOMAIN store THEN store[TypeKey(helper.descriptor)]
    ELSE <<>>

\* Mutant of InsertDeleted: the column is put in front of the first one.
InsertDeletedFirst(columns) == <<Column("DELETED", DeletedExpr, "", FALSE)>> \o columns

\* slices.Insert(table.Columns, 1, deletedCol).
InsertDeleted(columns) ==
    <<columns[1], Column("DELETED", DeletedExpr, "", FALSE)>> \o SubSeq(columns, 2, Len(columns))

\* The columns Render uses for the type of helper.
TableOf(store, includeDeleted, helper) ==
    LET loaded == loadTable(store, helper)
        table == IF loaded = <<>> THEN defaultTable ELSE loaded
    IN  IF includeDeleted THEN InsertDeleted(table) ELSE table

\* The first column whose expression does not compile; 0 when all do.
FirstBadColumn(cols, t) ==
    LET bad == {i \in 1..Len(cols) : ~Compiles(cols[i].Value, t)}
    IN  IF bad = {} THEN 0 ELSE CHOOSE i \in bad : \A j \in bad : i <= j

\* Mutant of RenderTable: the header is written before the expressions are
\* compiled.
RenderTableHeaderFirst(r, hs, store, messages, server, known) ==
    LET w == Work(r.cache)
        helper == HelperLookup(hs, FullName(messages[1].type))
        cols == TableOf(store, r.includeDeleted, hs[helper])
        bad == FirstBadColumn(cols, hs[helper].descriptor)
    IN  IF helper = 0
        THEN [w EXCEPT !.err = RenderError("failed to find object helper for type",
                                           FullName(messages[1].type), "", "")]
        ELSE IF bad # 0
        THEN [renderHeader(w, cols) EXCEPT
                 !.err = RenderError("failed to compile CEL expression",
                                     FullName(hs[helper].descriptor), cols[bad].Value,
                                     cols[bad].Header)]
        ELSE renderRows(renderHeader(w, cols), hs, server, known, cols, messages, hs[helper], 1)

\* TableRenderer.Render on a list that is not empty: the type of the first
\* message chooses the helper, the table and the CEL environment.
RenderTable(r, hs, store, messages, server, known) ==
    LET w == Work(r.cache)
        helper == HelperLookup(hs, FullName(messages[1].type))
        cols == TableOf(store, r.includeDeleted, hs[helper])
        bad == FirstBadColumn(cols, hs[helper].descriptor)
    IN  IF helper = 0
        THEN [w EXCEPT !.err = RenderError("failed to find object helper for type",
                                           FullName(messages[1].type), "", "")]
        ELSE IF bad # 0
        THEN [w EXCEPT !.err = RenderError("failed to compile CEL expression",
                                           FullName(hs[helper].descriptor), cols[bad].Value,
                                           cols[bad].Header)]
        ELSE renderRows(renderHeader(w, cols), hs, server, known, cols, messages, hs[helper], 1)

(***************************************************************************)
(* State.                                                                  *)
(***************************************************************************)
VARIABLES
    callers,     \* the goroutines that share the Helper
    catalog,     \* protoregistry.GlobalFiles, in the order RangeFiles visits it
    packages,    \* Helper.packages
    tokens,      \* the object types the callers pass to Lookup
    helpers,     \* Helper.helpers
    once,        \* Helper.scanOnce: "new", "running" or "done"
    scanPos,     \* the file RangeFiles visits next
    scans,       \* how many times the function given to scanOnce.Do has started
    crashed,     \* the process has ended with an unrecovered panic
    pc,          \* where each goroutine is
    cur,         \* the registry method each goroutine is in
    ret,         \* what the last registry method of each goroutine returned
    invoked,     \* how many times connection.Invoke has been called
    wire,        \* the last call of connection.Invoke: path and request
    out,         \* what the last ObjectHelper method of each goroutine returned
    builder,     \* the HelperBuilder
    built,       \* what the last call of HelperBuilder.Build read and returned
    tablesFS,    \* the embedded tables directory
    renderer,    \* the TableRenderer: includeDeleted and cache
    renders,     \* how many times Render has been called
    rendered,    \* the last call of Render: what it was given and what it did
    lookups,     \* how many List calls lookupName has issued for each reference
    cmd,         \* the command that runs: its arguments, where it is, what it printed
    world,       \* what is outside the process: the objects of the server, the files
    calls        \* the RPCs the command has issued, in order

vars ==
    <<callers, catalog, packages, tokens, helpers, once, scanPos, scans, crashed, pc, cur, ret,
      invoked, wire, out, builder, built, tablesFS, renderer, renders, rendered, lookups,
      cmd, world, calls>>

crudVars == <<invoked, wire, out>>

configVars == <<callers, catalog, packages, tokens>>

scanVars == <<helpers, once, scanPos, scans, crashed>>

builderVars == <<builder, built>>

renderVars == <<tablesFS, renderer, renders, rendered, lookups>>

commandVars == <<cmd, world, calls>>

NoCommand ==
    /\ cmd = <<>>
    /\ world = <<>>
    /\ calls = <<>>

\* The renderer of a run in which nothing is rendered.
NoRendered ==
    [ messages |-> <<>>, server |-> <<>>, before |-> <<>>, rows |-> <<>>,
      err |-> NoRenderError, panicked |-> FALSE, logs |-> <<>>, sent |-> <<>> ]

NoRenderer ==
    /\ tablesFS = <<>>
    /\ renderer = [includeDeleted |-> FALSE, cache |-> <<>>]
    /\ renders = 0
    /\ rendered = NoRendered
    /\ lookups = <<>>

NoCall == [op |-> "none", token |-> <<>>]

NoRet == [op |-> "none", token |-> <<>>, list |-> <<>>, helper |-> 0]

\* The state after HelperBuilder.Build.
InitOf(cfg) ==
    /\ callers = cfg.callers
    /\ catalog = cfg.catalog
    /\ packages = cfg.packages
    /\ tokens = cfg.tokens
    /\ helpers = <<>>
    /\ once = "new"
    /\ scanPos = 1
    /\ scans = 0
    /\ crashed = FALSE
    /\ pc = [c \in cfg.callers |-> "idle"]
    /\ cur = [c \in cfg.callers |-> NoCall]
    /\ ret = [c \in cfg.callers |-> NoRet]
    /\ invoked = 0
    /\ wire = NoInvoke
    /\ out = [c \in cfg.callers |-> NoOut]
    /\ builder = [logger |-> "set", connection |-> "set", packages |-> cfg.packages]
    /\ built = Built(builder)
    /\ NoRenderer
    /\ NoCommand

Init == \E cfg \in Configs : InitOf(cfg)

(***************************************************************************)
(* Actions of the registry.                                                *)
(***************************************************************************)
\* A goroutine calls Names, Singulars, Plurals or Lookup.
Call(c) ==
    /\ c \in callers
    /\ ~crashed
    /\ pc[c] = "idle"
    /\ \E op \in {"Names", "Singulars", "Plurals", "Lookup"} :
         \E token \in (IF op = "Lookup" THEN tokens ELSE {<<>>}) :
            cur' = [cur EXCEPT ![c] = [op |-> op, token |-> token]]
    /\ pc' = [pc EXCEPT ![c] = "enter"]
    /\ ret' = [ret EXCEPT ![c] = NoRet]
    /\ UNCHANGED <<builderVars, renderVars, commandVars, configVars, crudVars, scanVars>>

\* scanIfNeeded, the scan has been done: Do returns at once.
OnceDone(c) ==
    /\ c \in callers
    /\ ~crashed
    /\ pc[c] = "enter"
    /\ once = "done"
    /\ pc' = [pc EXCEPT ![c] = "body"]
    /\ UNCHANGED <<builderVars, renderVars, commandVars, configVars, crudVars, scanVars, cur, ret>>

\* scanIfNeeded, first use: the goroutine takes the lock of the Once and
\* starts the scan. A goroutine that finds the Once running waits.
OnceBegin(c) ==
    /\ c \in callers
    /\ ~crashed
    /\ pc[c] = "enter"
    /\ once = "new"
    /\ once' = "running"
    /\ scans' = scans + 1
    /\ pc' = [pc EXCEPT ![c] = "scan"]
    /\ UNCHANGED <<builderVars, renderVars, commandVars, configVars, crudVars, helpers, scanPos, crashed, cur, ret>>

\* RangeFiles hands the next file to scanFile. When a service panics, the
\* deferred calls of Once.Do mark the Once done and release its lock while
\* the panic unwinds the goroutine.
ScanFile(c) ==
    /\ c \in callers
    /\ ~crashed
    /\ pc[c] = "scan"
    /\ scanPos <= Len(catalog)
    /\ LET r == scanFile(packages, catalog[scanPos], helpers) IN
         /\ helpers' = r.helpers
         /\ IF r.panicked
            THEN /\ once' = "done"
                 /\ pc' = [pc EXCEPT ![c] = "panic"]
                 /\ scanPos' = scanPos
            ELSE /\ once' = once
                 /\ pc' = pc
                 /\ scanPos' = scanPos + 1
    /\ UNCHANGED <<builderVars, renderVars, commandVars, configVars, crudVars, scans, crashed, cur, ret>>

\* The end of Helper.scan: sort.Slice, then Do marks the Once done.
ScanSort(c) ==
    /\ c \in callers
    /\ ~crashed
    /\ pc[c] = "scan"
    /\ scanPos > Len(catalog)
    /\ helpers' \in SortedArrangements(packages, helpers)
    /\ once' = "done"
    /\ pc' = [pc EXCEPT ![c] = "body"]
    /\ UNCHANGED <<builderVars, renderVars, commandVars, configVars, crudVars, scanPos, scans, crashed, cur, ret>>

\* The panic reaches the top of the goroutine: nothing recovers it, and the
\* process ends.
Exit(c) ==
    /\ c \in callers
    /\ ~crashed
    /\ pc[c] = "panic"
    /\ crashed' = TRUE
    /\ UNCHANGED <<builderVars, renderVars, commandVars, configVars, crudVars, helpers, once, scanPos, scans, pc, cur, ret>>

Return(c, value) ==
    /\ ret' = [ret EXCEPT ![c] = value]
    /\ pc' = [pc EXCEPT ![c] = "idle"]
    /\ UNCHANGED <<builderVars, renderVars, commandVars, configVars, crudVars, scanVars, cur>>

Names(c) ==
    /\ c \in callers
    /\ ~crashed
    /\ pc[c] = "body"
    /\ cur[c].op = "Names"
    /\ Return(c, [NoRet EXCEPT !.op = "Names", !.list = HelperNames(helpers)])

Singulars(c) ==
    /\ c \in callers
    /\ ~crashed
    /\ pc[c] = "body"
    /\ cur[c].op = "Singulars"
    /\ Return(c, [NoRet EXCEPT !.op = "Singulars", !.list = HelperSingulars(helpers)])

Plurals(c) ==
    /\ c \in callers
    /\ ~crashed
    /\ pc[c] = "body"
    /\ cur[c].op = "Plurals"
    /\ Return(c, [NoRet EXCEPT !.op = "Plurals", !.list = HelperPlurals(helpers)])

Lookup(c) ==
    /\ c \in callers
    /\ ~crashed
    /\ pc[c] = "body"
    /\ cur[c].op = "Lookup"
    /\ Return(c, [NoRet EXCEPT !.op = "Lookup", !.token = cur[c].token,
                               !.helper = HelperLookup(helpers, cur[c].token)])

Next ==
    \E c \in Goroutines :
        \/ Call(c)
        \/ OnceDone(c)
        \/ OnceBegin(c)
        \/ ScanFile(c)
        \/ ScanSort(c)
        \/ Exit(c)
        \/ Names(c)
        \/ Singulars(c)
        \/ Plurals(c)
        \/ Lookup(c)

Spec == Init /\ [][Next]_vars

(***************************************************************************)
(* Actions of the object descriptors. A goroutine calls them on the helper *)
(* its last Lookup returned; the call blocks until the server has answered.*)
(***************************************************************************)
Holds(c) ==
    /\ c \in callers
    /\ ~crashed
    /\ pc[c] = "idle"
    /\ ret[c].op = "Lookup"
    /\ ret[c].helper # 0
    /\ invoked < MaxInvokes

\* The connection sees what the method sent; the goroutine keeps what it
\* passed and the result; the descriptor is what the method left of it.
Dispatch(c, op, args, reply, r) ==
    /\ invoked' = invoked + Len(r.sent)
    /\ wire' = IF r.sent = <<>> THEN wire ELSE r.sent[Len(r.sent)]
    /\ out' = [out EXCEPT ![c] =
                 [ op |-> op, helper |-> ret[c].helper, args |-> args, reply |-> reply,
                   err |-> r.err, object |-> r.object, items |-> r.items, total |-> r.total ]]
    /\ helpers' = [helpers EXCEPT ![ret[c].helper] = r.after]
    /\ UNCHANGED <<builderVars, renderVars, commandVars, configVars, once, scanPos, scans, crashed, pc, cur,
                   ret>>

Instance(c) ==
    /\ Holds(c)
    /\ Dispatch(c, "Instance", <<>>, NoReply, ObjectInstance(helpers[ret[c].helper]))

List(c) ==
    /\ Holds(c)
    /\ \E filter \in Filters, limit \in Limits :
         \E reply \in ListReplies(helpers[ret[c].helper]) :
            Dispatch(c, "List", [Filter |-> filter, Limit |-> limit], reply,
                     ObjectList(helpers[ret[c].helper], [Filter |-> filter, Limit |-> limit], reply))

Get(c) ==
    /\ Holds(c)
    /\ \E id \in Ids, reply \in ObjectReplies :
         Dispatch(c, "Get", [id |-> id], reply, ObjectGet(helpers[ret[c].helper], id, reply))

Create(c) ==
    /\ Holds(c)
    /\ \E object \in Objects, reply \in ObjectReplies :
         Dispatch(c, "Create", [object |-> object], reply, ObjectCreate(helpers[ret[c].helper], object, reply))

Update(c) ==
    /\ Holds(c)
    /\ \E object \in Objects, reply \in ObjectReplies :
         Dispatch(c, "Update", [object |-> object], reply, ObjectUpdate(helpers[ret[c].helper], object, reply))

Delete(c) ==
    /\ Holds(c)
    /\ \E id \in Ids, reply \in EmptyReplies :
         Dispatch(c, "Delete", [id |-> id], reply, ObjectDelete(helpers[ret[c].helper], id, reply))

InitCrud == \E cfg \in CrudConfigs : InitOf(cfg)

NextCrud ==
    \E c \in Goroutines :
        \/ Call(c)
        \/ OnceDone(c)
        \/ OnceBegin(c)
        \/ ScanFile(c)
        \/ ScanSort(c)
        \/ Names(c)
        \/ Singulars(c)
        \/ Plurals(c)
        \/ Lookup(c)
        \/ List(c)
        \/ Get(c)
        \/ Create(c)
        \/ Update(c)
        \/ Delete(c)
        \/ Instance(c)

SpecCrud == InitCrud /\ [][NextCrud]_vars

(***************************************************************************)
(* Actions of the builder. Nothing is scanned and nothing is called before *)
(* Build has returned a helper.                                            *)
(***************************************************************************)
registryVars == <<configVars, scanVars, crudVars, pc, cur, ret>>

InitBuild ==
    /\ NoRenderer
    /\ NoCommand
    /\ builder = NewHelper
    /\ built = NotBuilt
    /\ callers = {}
    /\ catalog = <<>>
    /\ packages = <<>>
    /\ tokens = {}
    /\ helpers = <<>>
    /\ once = "new"
    /\ scanPos = 1
    /\ scans = 0
    /\ crashed = FALSE
    /\ pc = <<>>
    /\ cur = <<>>
    /\ ret = <<>>
    /\ invoked = 0
    /\ wire = NoInvoke
    /\ out = <<>>

SetLogger ==
    /\ \E value \in {"nil", "set"} : builder' = [builder EXCEPT !.logger = value]
    /\ UNCHANGED <<built, registryVars, renderVars, commandVars>>

SetConnection ==
    /\ \E value \in {"nil", "set"} : builder' = [builder EXCEPT !.connection = value]
    /\ UNCHANGED <<built, registryVars, renderVars, commandVars>>

AddPackage ==
    /\ \E name \in {PkgP, PkgF}, order \in 0..MaxOrder :
         builder' = PutPackages(builder, [n \in {name} |-> order])
    /\ UNCHANGED <<built, registryVars, renderVars, commandVars>>

AddPackages ==
    /\ \E values \in PackageMaps : builder' = PutPackages(builder, values)
    /\ UNCHANGED <<built, registryVars, renderVars, commandVars>>

Build ==
    /\ built' = Built(builder)
    /\ UNCHANGED <<builder, registryVars, renderVars, commandVars>>

NextBuild ==
    \/ SetLogger
    \/ SetConnection
    \/ AddPackage
    \/ AddPackages
    \/ Build

SpecBuild == InitBuild /\ [][NextBuild]_vars

(***************************************************************************)
(* Actions of the table renderer. The registry has been scanned; Render    *)
(* runs on one goroutine and returns before it is called again.            *)
(***************************************************************************)
\* Catalogs for the renderer: the services of Hub and Key, with and without
\* the service of Boss.
RenderCatalogs ==
    LET hub == GoodService("S1", PkgF, TypeHubF)
        key == GoodService("S2", PkgF, TypeKeyF)
        boss == GoodService("S3", PkgF, TypeBossF)
    IN  { <<File(PkgF, <<hub, key, boss>>)>>, <<File(PkgF, <<hub, key>>)>> }

\* The state after TableRendererBuilder.Build, on a helper whose scan is done.
InitRender ==
    /\ \E c \in RenderCatalogs :
         /\ catalog = c
         /\ helpers \in SortedArrangements([p \in {PkgF} |-> 1],
                                           scanFile([p \in {PkgF} |-> 1], c[1], <<>>).helpers)
    /\ packages = [p \in {PkgF} |-> 1]
    /\ builder = [logger |-> "set", connection |-> "set", packages |-> packages]
    /\ built = Built(builder)
    /\ callers = {}
    /\ tokens = {}
    /\ once = "done"
    /\ scanPos = 2
    /\ scans = 1
    /\ crashed = FALSE
    /\ pc = <<>>
    /\ cur = <<>>
    /\ ret = <<>>
    /\ invoked = 0
    /\ wire = NoInvoke
    /\ out = <<>>
    /\ tablesFS \in LayoutStores
    /\ \E includeDeleted \in BOOLEAN : renderer = [includeDeleted |-> includeDeleted, cache |-> <<>>]
    /\ renders = 0
    /\ rendered = NoRendered
    /\ lookups = [ref \in LookupRefs |-> 0]
    /\ NoCommand

\* How many of the calls were the List of the reference: the List method of
\* the service of its type, with the filter of its key.
CountLists(hs, sent, ref) ==
    Cardinality({ i \in 1..Len(sent) :
                    /\ HelperLookup(hs, ref[1]) # 0
                    /\ sent[i].path = hs[HelperLookup(hs, ref[1])].list.path
                    /\ sent[i].request.filter = LookupFilter(ref[2]) })

\* TableRenderer.Render. A panic ends the process; the deferred Flush has
\* run by then, so what the writer received is out.
Render ==
    /\ ~crashed
    /\ renders < MaxRenders
    /\ \E messages \in (IF renders = 0 THEN ObjectLists ELSE RepeatLists) :
       \E server \in ServersFor(messages), known \in KnownFor(messages) :
         \E w \in { IF messages = <<>> THEN Work(renderer.cache)
                     ELSE RenderTable(renderer, helpers, tablesFS, messages, server, known) } :
             /\ renderer' = [renderer EXCEPT !.cache = w.cache]
             /\ rendered' = [ messages |-> messages, server |-> server,
                              before |-> renderer.cache,
                              rows |-> w.rows, err |-> w.err, panicked |-> w.panicked,
                              logs |-> w.logs, sent |-> w.sent ]
             /\ lookups' = [ref \in LookupRefs |-> lookups[ref] + CountLists(helpers, w.sent, ref)]
             /\ invoked' = invoked + Len(w.sent)
             /\ wire' = IF w.sent = <<>> THEN wire ELSE w.sent[Len(w.sent)]
             /\ crashed' = w.panicked
    /\ renders' = renders + 1
    /\ UNCHANGED <<builderVars, commandVars, configVars, helpers, once, scanPos, scans, pc, cur,
                   ret, out, tablesFS>>

NextRender == Render

SpecRender == InitRender /\ [][NextRender]_vars

(***************************************************************************)
(* The commands. A command runs on a registry whose scan is done; the      *)
(* server holds the objects of one managed type.                           *)
(***************************************************************************)
\* Largest number of references on a command line.
MaxRefs == 2

\* The objects the server may hold: two share a name, and the name of the
\* third is the identifier of the first.
ServerObjects == { [id |-> "a", name |-> "x"], [id |-> "b", name |-> "x"], [id |-> "c", name |-> "a"] }

\* The references given on the command line: identifiers, names, and one
\* that matches nothing.
Refs == {"a", "b", "x", "z"}

RefLists == UNION { [1..n -> Refs] : n \in 0..MaxRefs }

\* The sequences that hold each element of the set once.
Orderings(S) ==
    { seq \in [1..Cardinality(S) -> S] : \A i, j \in 1..Cardinality(S) : i # j => seq[i] # seq[j] }

\* strings.Join of the quoted references.
RECURSIVE JoinQuoted(_, _)
JoinQuoted(refs, i) ==
    IF i > Len(refs) THEN ""
    ELSE (IF i > 1 THEN ", " ELSE "") \o "\"" \o refs[i] \o "\"" \o JoinQuoted(refs, i + 1)

\* The filter of findMatches.
MatchFilter(refs) ==
    "this.id in [" \o JoinQuoted(refs, 1) \o "] || this.metadata.name in ["
        \o JoinQuoted(refs, 1) \o "]"

\* What the server answers to the List with the filter of these references:
\* the objects whose identifier or name is one of them, in some order, or an
\* error.
MatchReplies(objects, refs) ==
    LET range == {refs[i] : i \in 1..Len(refs)}
        hits == {o \in objects : o.id \in range \/ o.name \in range}
    IN  { [NoReply EXCEPT !.err = [code |-> "Unavailable", context |-> <<>>]] }
        \cup { [NoReply EXCEPT !.items = items, !.total = Len(items)] : items \in Orderings(hits) }

\* The inner loops of findMatches for one object: the object is appended to
\* the matches of ref once for every position of refs that holds ref.
RECURSIVE AppendMatches(_, _, _, _, _)
AppendMatches(matches, object, refs, ref, j) ==
    IF j > Len(refs) THEN matches
    ELSE AppendMatches(IF refs[j] = ref /\ (object.id = ref \/ object.name = ref)
                       THEN Append(matches, object) ELSE matches,
                       object, refs, ref, j + 1)

\* The value of result[ref] after the loop of findMatches over the items.
RECURSIVE MatchesOf(_, _, _, _, _)
MatchesOf(matches, items, refs, ref, i) ==
    IF i > Len(items) THEN matches
    ELSE MatchesOf(AppendMatches(matches, items[i], refs, ref, 1), items, refs, ref, i + 1)

\* delete runnerContext.findMatches: one List for all the references, then
\* the matches of each reference.
findMatches(h, refs, reply) ==
    LET r == ObjectList(h, [Filter |-> MatchFilter(refs), Limit |-> 0], reply)
    IN  [ sent |-> r.sent,
          err |-> IF r.err # NoErr THEN Wrap("failed to find objects of type", r.err) ELSE NoErr,
          result |-> IF r.err # NoErr THEN <<>>
                     ELSE [ ref \in {refs[i] : i \in 1..Len(refs)} |->
                              MatchesOf(<<>>, r.items, refs, ref, 1) ] ]

\* Mutant of FirstUnresolved: a reference with several matches passes.
FirstUnresolvedNone(matches, refs) ==
    LET bad == {i \in 1..Len(refs) : Len(matches[refs[i]]) = 0}
    IN  IF bad = {} THEN 0 ELSE CHOOSE i \in bad : \A j \in bad : i <= j

\* The validation loop of the delete command: the first reference that does
\* not have exactly one match, 0 when there is none.
FirstUnresolved(matches, refs) ==
    LET bad == {i \in 1..Len(refs) : Len(matches[refs[i]]) # 1}
    IN  IF bad = {} THEN 0 ELSE CHOOSE i \in bad : \A j \in bad : i <= j

\* What a command printed: the template or the text, and what it is about.
Printed(text, about) == [text |-> text, about |-> about]

\* The results of a command: nil, an exit code, an error.
Returned(exit, err) == [exit |-> exit, err |-> err]

\* The delete command before it runs.
DeleteCommand(args) ==
    [ name |-> "delete", phase |-> "start", args |-> args, helper |-> 0, objects |-> <<>>,
      pos |-> 1, printed |-> <<>>, result |-> Returned(0, NoErr) ]

\* The command has returned.
Done(c, printed, result) ==
    [c EXCEPT !.phase = "done", !.printed = @ \o printed, !.result = result]

\* The command lines of delete: no object type, a type the registry manages
\* or one it does not, and the references.
DeleteArgs ==
    { [type |-> <<>>, refs |-> <<>>] }
    \cup { [type |-> t, refs |-> refs] : t \in {ToLower(NameHub), NoSuchToken}, refs \in RefLists }

\* What the server answers to the Delete of an identifier.
DeleteReplies(objects, id) ==
    { [NoReply EXCEPT !.err = [code |-> "Unavailable", context |-> <<>>]] }
    \cup (IF \E o \in objects : o.id = id
          THEN {NoReply}
          ELSE { [NoReply EXCEPT !.err = [code |-> "NotFound", context |-> <<>>]] })

\* The registry of a command: built, and scanned by the Lookup of the
\* command, on a catalog with three managed types.
CommandCatalog == <<File(PkgF, <<GoodService("S1", PkgF, TypeHubF), GoodService("S2", PkgF, TypeKeyF), GoodService("S3", PkgF, TypeBossF)>>)>>

InitScanned ==
    /\ catalog = CommandCatalog
    /\ packages = [p \in {PkgF} |-> 1]
    /\ helpers = scanFile(packages, catalog[1], <<>>).helpers
    /\ builder = [logger |-> "set", connection |-> "set", packages |-> packages]
    /\ built = Built(builder)
    /\ callers = {}
    /\ tokens = {}
    /\ once = "done"
    /\ scanPos = 2
    /\ scans = 1
    /\ crashed = FALSE
    /\ pc = <<>>
    /\ cur = <<>>
    /\ ret = <<>>
    /\ invoked = 0
    /\ wire = NoInvoke
    /\ out = <<>>
    /\ NoRenderer

\* What no command changes.
commandFrame == <<builderVars, renderVars, configVars, crudVars, scanVars, pc, cur, ret>>

InitDelete ==
    /\ InitScanned
    /\ \E args \in DeleteArgs : cmd = DeleteCommand(args)
    /\ \E objects \in SUBSET ServerObjects : world = [objects |-> objects]
    /\ calls = <<>>

\* delete runnerContext.run, up to the loop that deletes: the checks of the
\* arguments, the Lookup, findMatches and the validation of its matches.
DeleteRun ==
    /\ cmd.name = "delete"
    /\ cmd.phase = "start"
    /\ LET refs == cmd.args.refs
           helper == HelperLookup(helpers, cmd.args.type)
       IN  IF cmd.args.type = <<>>
           THEN /\ cmd' = Done(cmd, <<Printed("no_object.txt", "")>>, Returned(0, NoErr))
                /\ calls' = calls
           ELSE IF refs = <<>>
           THEN /\ cmd' = Done(cmd, <<Printed("no_id.txt", "")>>, Returned(0, NoErr))
                /\ calls' = calls
           ELSE IF helper = 0
           THEN /\ cmd' = Done(cmd, <<Printed("wrong_object.txt", "")>>, Returned(0, NoErr))
                /\ calls' = calls
           ELSE \E reply \in MatchReplies(world.objects, refs) :
                \E m \in {findMatches(helpers[helper], refs, reply)} :
                    /\ calls' = calls \o m.sent
                    /\ cmd' =
                         IF m.err # NoErr THEN Done(cmd, <<>>, Returned(1, m.err))
                         ELSE IF FirstUnresolved(m.result, refs) # 0
                         THEN LET ref == refs[FirstUnresolved(m.result, refs)]
                              IN  Done(cmd,
                                       << Printed(IF Len(m.result[ref]) = 0
                                                  THEN "no_matches.txt"
                                                  ELSE "multiple_matches.txt", ref) >>,
                                       Returned(0, NoErr))
                         ELSE [cmd EXCEPT !.phase = "deleting", !.helper = helper,
                                          !.objects = [i \in 1..Len(refs) |-> m.result[refs[i]][1]]]
    /\ UNCHANGED <<commandFrame, world>>

\* One turn of the loop that deletes, with the return that follows the last:
\* the Delete of the identifier of the next object, and what the command
\* does with its error.
DeleteObject ==
    /\ cmd.name = "delete"
    /\ cmd.phase = "deleting"
    /\ LET id == cmd.objects[cmd.pos].id IN
       \E reply \in DeleteReplies(world.objects, id) :
       \E r \in {ObjectDelete(helpers[cmd.helper], id, reply)} :
           /\ calls' = calls \o r.sent
           /\ world' = IF reply.err = NoErr
                       THEN [world EXCEPT !.objects = {o \in @ : o.id # id}]
                       ELSE world
           /\ cmd' =
                IF r.err # NoErr
                THEN Done(cmd,
                          IF DeleteReport(r.err).printed = "" THEN <<>>
                          ELSE <<Printed(DeleteReport(r.err).printed, id)>>,
                          Returned(DeleteReport(r.err).exit, DeleteReport(r.err).err))
                ELSE IF cmd.pos = Len(cmd.objects)
                THEN Done(cmd, <<Printed("Deleted", id)>>, Returned(0, NoErr))
                ELSE [cmd EXCEPT !.pos = @ + 1, !.printed = Append(@, Printed("Deleted", id))]
    /\ UNCHANGED commandFrame

NextDelete == DeleteRun \/ DeleteObject

SpecDelete == InitDelete /\ [][NextDelete]_vars

(***************************************************************************)
(* The label and annotate commands.  The texts of the operations are       *)
(* sequences of characters, so that strings.Cut, HasSuffix and TrimSuffix  *)
(* are computed on them.                                                   *)
(***************************************************************************)

MaxOps == 2

\* The operation arguments: sets, removals, an empty key before '=', a lone
\* '-', a text with neither '=' nor a final '-', the empty text.
OpTexts ==
    { <<"k", "=", "v">>, <<"k", "=", "w">>, <<"j", "=", "v">>, <<"k", "=">>, <<"k", "-">>,
      <<"=", "v">>, <<"-">>, <<"k">>, <<>> }

OpLists == UNION { [1..n -> OpTexts] : n \in 0..MaxOps }

\* A Go map of strings: nil, or the entries.
NilMap == [set |-> FALSE, entries |-> [k \in {} |-> <<>>]]

MapOf(entries) == [set |-> TRUE, entries |-> entries]

\* What the objects of the server hold as labels and as annotations.
StoredMaps == { NilMap, MapOf([k \in {<<"k">>} |-> <<"u">>]) }

\* The objects of the server with their metadata.
WithMetadata(objects, stored) ==
    { [id |-> o.id, name |-> o.name, labels |-> stored, annotations |-> stored] : o \in objects }

\* strings.Cut: the text before and after the first separator.
Cut(text, sep) ==
    LET at == {i \in 1..Len(text) : text[i] = sep}
        first == CHOOSE i \in at : \A j \in at : i <= j
    IN  IF at = {} THEN [before |-> text, after |-> <<>>, found |-> FALSE]
        ELSE [before |-> SubSeq(text, 1, first - 1),
              after |-> SubSeq(text, first + 1, Len(text)),
              found |-> TRUE]

\* strings.HasSuffix and strings.TrimSuffix for a suffix of one character.
HasSuffix1(text, c) == Len(text) > 0 /\ text[Len(text)] = c

TrimSuffix1(text, c) == IF HasSuffix1(text, c) THEN SubSeq(text, 1, Len(text) - 1) ELSE text

\* An error made by fmt.Errorf without an error to wrap.
NewError(message) == [code |-> "Unknown", context |-> <<message>>]

NoOperation == [err |-> NoErr, key |-> <<>>, value |-> <<>>, remove |-> FALSE]

\* parseLabelOperation and parseAnnotationOperation: only the second tests
\* the key that strings.Cut found before '='.
parseOperation(name, text) ==
    LET cut == Cut(text, "=") IN
    IF cut.found
    THEN IF name = "annotate" /\ cut.before = <<>>
         THEN [NoOperation EXCEPT !.err = NewError("name can't be empty")]
         ELSE [NoOperation EXCEPT !.key = cut.before, !.value = cut.after]
    ELSE IF HasSuffix1(text, "-")
    THEN IF TrimSuffix1(text, "-") = <<>>
         THEN [NoOperation EXCEPT !.err = NewError("name can't be empty")]
         ELSE [NoOperation EXCEPT !.key = TrimSuffix1(text, "-"), !.remove = TRUE]
    ELSE [NoOperation EXCEPT !.err = NewError("invalid specification")]

\* parseLabelOperations and parseAnnotationOperations: the operations, or
\* the error of the first text that has one.
RECURSIVE parseOperations(_, _, _, _)
parseOperations(name, values, i, result) ==
    IF i > Len(values) THEN [err |-> NoErr, operations |-> result]
    ELSE LET operation == parseOperation(name, values[i])
         IN  IF operation.err # NoErr THEN [err |-> operation.err, operations |-> <<>>]
             ELSE parseOperations(name, values, i + 1, Append(result, operation))

\* The filter of findObject.
FindFilter(ref) ==
    "this.id == \"" \o ref \o "\" || this.metadata.name == \"" \o ref \o "\""

\* What the server answers to the List of findObject.
FindReplies(objects, ref) ==
    LET hits == {o \in objects : o.id = ref \/ o.name = ref}
    IN  { [NoReply EXCEPT !.err = [code |-> "Unavailable", context |-> <<>>]] }
        \cup { [NoReply EXCEPT !.items = items, !.total = Len(items)] : items \in Orderings(hits) }

\* findObject of the label and annotate commands: the object when the List
\* returned one, else the template it rendered, or the error.
findObject(h, ref, reply) ==
    LET r == ObjectList(h, [Filter |-> FindFilter(ref), Limit |-> 10], reply)
    IN  [ sent |-> r.sent,
          err |-> IF r.err # NoErr THEN Wrap("failed to find object of type", r.err) ELSE NoErr,
          found |-> r.err = NoErr /\ Len(r.items) = 1,
          items |-> r.items,
          printed |-> IF r.err # NoErr \/ Len(r.items) = 1 THEN <<>>
                      ELSE IF Len(r.items) = 0 THEN <<Printed("no_matches.txt", ref)>>
                      ELSE <<Printed("multiple_matches.txt", ref)>> ]

\* The loop of applyLabelOperations and applyAnnotationOperations.
RECURSIVE applyLoop(_, _, _)
applyLoop(entries, operations, i) ==
    IF i > Len(operations) THEN entries
    ELSE LET operation == operations[i]
         IN  applyLoop(IF operation.remove
                       THEN [k \in DOMAIN entries \ {operation.key} |-> entries[k]]
                       ELSE [k \in DOMAIN entries \cup {operation.key} |->
                               IF k = operation.key THEN operation.value ELSE entries[k]],
                       operations, i + 1)

\* applyLabelOperations and applyAnnotationOperations: the map of the
\* metadata after the operations; a nil map that stays empty is not set.
applyOperations(stored, operations) ==
    LET entries == applyLoop(stored.entries, operations, 1)
    IN  IF DOMAIN entries # {} \/ stored.set THEN MapOf(entries) ELSE stored

\* The command lines of label and annotate.
LabelArgs ==
    { [type |-> <<>>, ref |-> <<>>, ops |-> <<>>] }
    \cup { [type |-> t, ref |-> <<>>, ops |-> <<>>] : t \in {ToLower(NameHub), NoSuchToken} }
    \cup { [type |-> ToLower(NameHub), ref |-> <<ref>>, ops |-> ops] :
             ref \in {"a", "x", "z"}, ops \in OpLists }

\* The label or the annotate command before it runs.
LabelCommand(name, args) ==
    [ name |-> name, phase |-> "start", args |-> args, helper |-> 0, objects |-> <<>>,
      operations |-> <<>>, pos |-> 1, printed |-> <<>>, result |-> Returned(0, NoErr) ]

InitLabel ==
    /\ InitScanned
    /\ \E name \in {"label", "annotate"}, args \in LabelArgs : cmd = LabelCommand(name, args)
    /\ \E objects \in SUBSET ServerObjects, stored \in StoredMaps :
           world = [objects |-> WithMetadata(objects, stored)]
    /\ calls = <<>>

\* run of the label and annotate commands, up to the object it found: the
\* checks of the arguments, the Lookup, the parsing of the operations and
\* findObject.
LabelRun ==
    /\ cmd.name \in {"label", "annotate"}
    /\ cmd.phase = "start"
    /\ LET args == cmd.args
           helper == HelperLookup(helpers, args.type)
           parsed == parseOperations(cmd.name, args.ops, 1, <<>>)
       IN  IF args.type = <<>>
           THEN /\ cmd' = Done(cmd, <<Printed("no_object.txt", "")>>, Returned(0, NoErr))
                /\ calls' = calls
           ELSE IF helper = 0
           THEN /\ cmd' = Done(cmd, <<Printed("wrong_object.txt", "")>>, Returned(0, NoErr))
                /\ calls' = calls
           ELSE IF args.ref = <<>>
           THEN /\ cmd' = Done(cmd, <<Printed("no_id.txt", "")>>, Returned(0, NoErr))
                /\ calls' = calls
           ELSE IF args.ops = <<>>
           THEN /\ cmd' = Done(cmd,
                               << Printed(IF cmd.name = "label" THEN "no_labels.txt"
                                          ELSE "no_annotations.txt", "") >>,
                               Returned(0, NoErr))
                /\ calls' = calls
           ELSE IF parsed.err # NoErr
           THEN /\ cmd' = Done(cmd, <<>>, Returned(1, parsed.err))
                /\ calls' = calls
           ELSE \E reply \in FindReplies(world.objects, args.ref[1]) :
                \E f \in {findObject(helpers[helper], args.ref[1], reply)} :
                    /\ calls' = calls \o f.sent
                    /\ cmd' =
                         IF f.err # NoErr THEN Done(cmd, <<>>, Returned(1, f.err))
                         ELSE IF ~f.found THEN Done(cmd, f.printed, Returned(0, NoErr))
                         ELSE [cmd EXCEPT !.phase = "saving", !.helper = helper,
                                          !.objects = f.items,
                                          !.operations = parsed.operations]
    /\ UNCHANGED <<commandFrame, world>>

\* The end of run of the label and annotate commands: the operations are
\* applied to the map of the metadata of the object, and the object is sent
\* with Update.
LabelSave ==
    /\ cmd.name \in {"label", "annotate"}
    /\ cmd.phase = "saving"
    /\ LET found == cmd.objects[1]
           object == IF cmd.name = "label"
                     THEN [found EXCEPT !.labels = applyOperations(@, cmd.operations)]
                     ELSE [found EXCEPT !.annotations = applyOperations(@, cmd.operations)]
       IN  \E reply \in { [NoReply EXCEPT !.err = [code |-> "Unavailable", context |-> <<>>]],
                          [NoReply EXCEPT !.object = object] } :
           \E r \in {ObjectUpdate(helpers[cmd.helper], object, reply)} :
               /\ calls' = calls \o r.sent
               /\ world' = IF reply.err # NoErr THEN world
                           ELSE [world EXCEPT !.objects = {o \in @ : o.id # object.id} \cup {object}]
               /\ cmd' = Done(cmd, <<>>, IF r.err # NoErr THEN Returned(1, r.err)
                                         ELSE Returned(0, NoErr))
    /\ UNCHANGED commandFrame

NextLabel == LabelRun \/ LabelSave

SpecLabel == InitLabel /\ [][NextLabel]_vars

(***************************************************************************)
(* The watch mode of the get command.                                      *)
(***************************************************************************)

MaxEvents == 2

\* eventPayloadFieldNames: the field of the event that holds an object of a
\* type, by the full name of the type.  Key has none.
eventPayloadFieldNames == [n \in {FullName(TypeHubF), FullName(TypeBossF)} |-> IF n = FullName(TypeHubF) THEN "hub" ELSE "boss"]

\* runnerContext.getEventPayloadFieldName: a map read, "" for a missing key.
getEventPayloadFieldName(h) ==
    LET fullName == FullName(h.descriptor)
    IN  IF fullName \in DOMAIN eventPayloadFieldNames THEN eventPayloadFieldNames[fullName] ELSE ""

\* The filter for one key, and strings.Join of these filters with " || ".
RECURSIVE JoinKeys(_, _, _)
JoinKeys(fieldName, keys, i) ==
    IF i > Len(keys) THEN ""
    ELSE (IF i > 1 THEN " || " ELSE "")
         \o "event." \o fieldName \o ".id == \"" \o keys[i] \o "\" || event."
         \o fieldName \o ".metadata.name == \"" \o keys[i] \o "\""
         \o JoinKeys(fieldName, keys, i + 1)

\* runnerContext.buildEventFilter.
buildEventFilter(h, keys) ==
    LET fieldName == getEventPayloadFieldName(h) IN
    IF fieldName = ""
    THEN [filter |-> "", err |-> NewError("object type is not supported for watching")]
    ELSE [filter |-> "has(event." \o fieldName \o ")"
                     \o (IF Len(keys) > 0 THEN " && (" \o JoinKeys(fieldName, keys, 1) \o ")"
                         ELSE ""),
          err |-> NoErr]

\* The payloads of an event: none, a hub, a boss, or a member of the oneof
\* that the command does not know.
NoPayload == [kind |-> "none", id |-> ""]

Payloads == { NoPayload, [kind |-> "hub", id |-> "a"], [kind |-> "boss", id |-> "k1"], [kind |-> "other", id |-> "o"] }

\* What Recv returns: a response without event, a response with an event, or
\* an error; io.EOF is the error of a stream that ended.
NoEvent == [present |-> FALSE, payload |-> NoPayload]

Responses ==
    { [err |-> NoErr, event |-> NoEvent] }
    \cup { [err |-> NoErr, event |-> [present |-> TRUE, payload |-> p]] : p \in Payloads }

StreamEnds ==
    { [err |-> [code |-> c, context |-> <<>>], event |-> NoEvent] : c \in {"EOF", "Canceled", "Unavailable"} }

\* The streams: some responses, then the error that ends the stream.
Streams == UNION { {Append(s, e) : s \in [1..n -> Responses], e \in StreamEnds} : n \in 0..MaxEvents }

\* Mutant of extractObjectFromEvent: every payload that is set gives an
\* object.
extractObjectFromAny(event) ==
    IF event.payload.kind = "none"
    THEN [object |-> NoPayload, err |-> NewError("event has no payload")]
    ELSE [object |-> event.payload, err |-> NoErr]

\* runnerContext.extractObjectFromEvent.
extractObjectFromEvent(event) ==
    IF event.payload.kind = "none"
    THEN [object |-> NoPayload, err |-> NewError("event has no payload")]
    ELSE IF event.payload.kind \in {"hub", "boss"}
    THEN [object |-> event.payload, err |-> NoErr]
    ELSE [object |-> NoPayload, err |-> NewError("unsupported event payload type")]

\* runnerContext.displayEvent: the header with the identifier of the object,
\* the object rendered, and an empty line, as one thing printed.
displayEvent(h, object) == Printed("event", object.id)

\* The command lines of get --watch: a type, and keys.
WatchArgs ==
    { [type |-> ToLower(t.name), keys |-> keys] :
        t \in {TypeHubF, TypeBossF, TypeKeyF}, keys \in {<<>>, <<"a">>, <<"a", "x">>} }

\* The get command when it enters watch.
WatchCommand(args, helper) ==
    [ name |-> "watch", phase |-> "start", args |-> args, helper |-> helper, objects |-> <<>>,
      pos |-> 1, printed |-> <<>>, result |-> Returned(0, NoErr) ]

InitWatch ==
    /\ InitScanned
    /\ \E args \in WatchArgs : cmd = WatchCommand(args, HelperLookup(helpers, args.type))
    /\ \E stream \in Streams, opens \in BOOLEAN : world = [stream |-> stream, opens |-> opens]
    /\ calls = <<>>

\* runnerContext.watch up to its loop: the filter is built and the stream is
\* opened with it.
WatchStart ==
    /\ cmd.name = "watch"
    /\ cmd.phase = "start"
    /\ \E f \in {buildEventFilter(helpers[cmd.helper], cmd.args.keys)} :
         IF f.err # NoErr
         THEN /\ cmd' = Done(cmd, <<>>, Returned(1, Wrap("failed to build event filter", f.err)))
              /\ calls' = calls
         ELSE /\ calls' = Append(calls, Invocation(<<"Events", "Watch">>, [filter |-> f.filter]))
              /\ cmd' = IF world.opens
                        THEN [cmd EXCEPT !.phase = "receiving",
                                         !.printed = <<Printed("Watching for changes", "")>>]
                        ELSE Done(cmd, <<Printed("Watching for changes", "")>>,
                                  Returned(1, Wrap("failed to start watching events",
                                                   [code |-> "Unavailable", context |-> <<>>])))
    /\ UNCHANGED <<commandFrame, world>>

\* One turn of the loop of runnerContext.watch: Recv, and what is done with
\* what it returned.
WatchRecv ==
    /\ cmd.name = "watch"
    /\ cmd.phase = "receiving"
    /\ LET response == world.stream[cmd.pos]
           extracted == extractObjectFromEvent(response.event)
           next == [cmd EXCEPT !.pos = @ + 1]
       IN  cmd' =
             IF response.err # NoErr /\ response.err.code = "EOF"
             THEN Done(next, <<>>, Returned(0, NoErr))
             ELSE IF response.err # NoErr
             THEN Done(next, <<>>, Returned(1, Wrap("failed to receive event", response.err)))
             ELSE IF ~response.event.present THEN next
             ELSE IF extracted.err # NoErr THEN next
             ELSE [next EXCEPT !.printed = Append(@, displayEvent(helpers[cmd.helper], extracted.object))]
    /\ UNCHANGED <<commandFrame, world, calls>>

NextWatch == WatchStart \/ WatchRecv

SpecWatch == InitWatch /\ [][NextWatch]_vars

(***************************************************************************)
(* The configuration: its file, its CA pool and its token store.           *)
(***************************************************************************)

MaxSteps == 3

\* A *x509.CertPool: nil, or the pool made by the n-th build.
NilPool == [set |-> FALSE, build |-> 0]

Pool(n) == [set |-> TRUE, build |-> n]

\* A time.Time: the instant, and whether it carries what only a time in
\* memory has (a monotonic clock reading, a location); the != of Go compares
\* both.
ZeroTime == [instant |-> 0, local |-> FALSE]

Times == { ZeroTime, [instant |-> 1, local |-> FALSE], [instant |-> 1, local |-> TRUE] }

\* A *auth.Token: nil, or the three fields.
NilToken == [nil |-> TRUE, Access |-> "", Refresh |-> "", Expiry |-> ZeroTime]

Token(access, refresh, expiry) == [nil |-> FALSE, Access |-> access, Refresh |-> refresh, Expiry |-> expiry]

StoreTokens == { Token(a, r, e) : a \in {"", "t1"}, r \in {"", "r"}, e \in Times }

\* A *Config: nil, or &Config{} and what is set in it.
NilConfig == [nil |-> TRUE, AccessToken |-> "", RefreshToken |-> "", TokenExpiry |-> ZeroTime, caPool |-> NilPool]

EmptyConfig == [NilConfig EXCEPT !.nil = FALSE]

\* The configuration file: absent, one that cannot be read, empty, one that
\* is not JSON, or the JSON of a configuration.
NoFile == [state |-> "absent", access_token |-> "", refresh_token |-> "", token_expiry |-> 0]

FileOf(state) == [NoFile EXCEPT !.state = state]

\* json.MarshalIndent of the configuration: the time is written as its
\* instant, the pool is not written.
Marshal(cfg) ==
    [ state |-> "json", access_token |-> cfg.AccessToken, refresh_token |-> cfg.RefreshToken,
      token_expiry |-> cfg.TokenExpiry.instant ]

\* json.Unmarshal into &Config{}.
Unmarshal(file) ==
    [ EmptyConfig EXCEPT !.AccessToken = file.access_token, !.RefreshToken = file.refresh_token,
                         !.TokenExpiry = [instant |-> file.token_expiry, local |-> FALSE] ]

Files ==
    { FileOf(s) : s \in {"absent", "unreadable", "empty", "garbled"} }
    \cup { Marshal(Unmarshal([NoFile EXCEPT !.access_token = a, !.token_expiry = e])) : a \in {"", "t1"}, e \in {0, 1} }

\* How a build of the CA pool ends: with a pool, with an error before the
\* pool is assigned, or with the error of Build and the nil it returns.
PoolOutcomes == {"ok", "early", "build"}

\* Config.createCaPool, for the n-th build.
createCaPool(cfg, outcome, n) ==
    IF outcome = "ok" THEN [cfg |-> [cfg EXCEPT !.caPool = Pool(n)], err |-> NoErr]
    ELSE IF outcome = "early"
    THEN [cfg |-> cfg, err |-> NewError("failed to create temporary directory for CA files")]
    ELSE [cfg |-> [cfg EXCEPT !.caPool = NilPool], err |-> NewError("failed to build the pool")]

\* Config.CaPool: createCaPool is called when the pool is not nil.
CaPool(cfg, outcome, n) ==
    LET created == createCaPool(cfg, outcome, n) IN
    IF cfg.caPool.set
    THEN IF created.err # NoErr THEN [cfg |-> created.cfg, result |-> NilPool, err |-> created.err]
         ELSE [cfg |-> created.cfg, result |-> created.cfg.caPool, err |-> NoErr]
    ELSE [cfg |-> cfg, result |-> cfg.caPool, err |-> NoErr]

\* config.Load: a file that does not exist gives &Config{} and no error.
LoadConfig(file, outcome, n) ==
    IF file.state = "absent" THEN [cfg |-> EmptyConfig, err |-> NoErr]
    ELSE IF file.state = "unreadable"
    THEN [cfg |-> NilConfig, err |-> NewError("failed to read config file")]
    ELSE IF file.state = "empty" THEN [cfg |-> EmptyConfig, err |-> NoErr]
    ELSE IF file.state = "garbled"
    THEN [cfg |-> EmptyConfig, err |-> NewError("failed to parse config file")]
    ELSE LET created == createCaPool(Unmarshal(file), outcome, n)
         IN  [cfg |-> created.cfg,
              err |-> IF created.err # NoErr THEN Wrap("failed to create CA pool", created.err)
                      ELSE NoErr]

\* config.Save: the file after it, and its error; written is whether
\* os.WriteFile succeeds.
SaveConfig(cfg, file, written) ==
    IF written THEN [file |-> Marshal(cfg), err |-> NoErr, wrote |-> TRUE]
    ELSE [file |-> file, err |-> NewError("failed to write file"), wrote |-> FALSE]

\* configTokenStore.Load.
StoreLoad(cfg) ==
    IF cfg.AccessToken = "" THEN NilToken
    ELSE Token(cfg.AccessToken, cfg.RefreshToken, cfg.TokenExpiry)

\* configTokenStore.Save.
StoreSave(cfg, file, token, written) ==
    LET changed == [cfg EXCEPT !.AccessToken = token.Access, !.RefreshToken = token.Refresh,
                               !.TokenExpiry = token.Expiry]
        saved == SaveConfig(changed, file, written)
    IN  IF token.nil
        THEN [cfg |-> cfg, file |-> file, err |-> NewError("token cannot be nil"), wrote |-> FALSE]
        ELSE IF cfg.AccessToken = token.Access /\ cfg.RefreshToken = token.Refresh
                /\ cfg.TokenExpiry = token.Expiry
        THEN [cfg |-> cfg, file |-> file, err |-> NoErr, wrote |-> FALSE]
        ELSE [cfg |-> changed, file |-> saved.file, err |-> saved.err, wrote |-> saved.wrote]

\* What is kept of the last call on the configuration: its name, its
\* argument, the configuration and the file before it, and what it returned.
NoLast ==
    [ op |-> "none", token |-> NilToken, before |-> NilConfig, file |-> NoFile, writes |-> 0,
      result |-> NilToken, pool |-> NilPool, err |-> NoErr ]

\* A process that has loaded the configuration and uses it.
ConfigUser ==
    [ name |-> "config", phase |-> "start", cfg |-> NilConfig, builds |-> 0, steps |-> 0,
      last |-> NoLast ]

InitConfig ==
    /\ InitScanned
    /\ cmd = ConfigUser
    /\ \E file \in Files : world = [file |-> file, writes |-> 0, failed |-> 0]
    /\ calls = <<>>

\* config.Load by the process.
Load ==
    /\ cmd.name = "config"
    /\ cmd.phase = "start"
    /\ \E outcome \in PoolOutcomes :
       \E r \in {LoadConfig(world.file, outcome, cmd.builds + 1)} :
           cmd' = [cmd EXCEPT !.phase = IF r.err # NoErr THEN "done" ELSE "loaded",
                              !.cfg = r.cfg,
                              !.builds = @ + 1,
                              !.last = [NoLast EXCEPT !.op = "Load", !.file = world.file,
                                                      !.pool = r.cfg.caPool, !.err = r.err]]
    /\ UNCHANGED <<commandFrame, world, calls>>

\* A call of Config.CaPool.
GetCaPool ==
    /\ cmd.name = "config"
    /\ cmd.phase = "loaded"
    /\ cmd.steps < MaxSteps
    /\ \E outcome \in PoolOutcomes :
       \E r \in {CaPool(cmd.cfg, outcome, cmd.builds + 1)} :
           cmd' = [cmd EXCEPT !.cfg = r.cfg,
                              !.builds = @ + 1,
                              !.steps = @ + 1,
                              !.last = [NoLast EXCEPT !.op = "CaPool", !.before = cmd.cfg,
                                                      !.file = world.file, !.writes = world.writes,
                                                      !.pool = r.result, !.err = r.err]]
    /\ UNCHANGED <<commandFrame, world, calls>>

\* A call of Load of the token store of the configuration.
TokenLoad ==
    /\ cmd.name = "config"
    /\ cmd.phase = "loaded"
    /\ cmd.steps < MaxSteps
    /\ cmd' = [cmd EXCEPT !.steps = @ + 1,
                          !.last = [NoLast EXCEPT !.op = "StoreLoad", !.before = cmd.cfg,
                                                  !.file = world.file, !.writes = world.writes,
                                                  !.result = StoreLoad(cmd.cfg)]]
    /\ UNCHANGED <<commandFrame, world, calls>>

\* A call of Save of the token store of the configuration.
TokenSave ==
    /\ cmd.name = "config"
    /\ cmd.phase = "loaded"
    /\ cmd.steps < MaxSteps
    /\ \E token \in StoreTokens \cup {NilToken}, written \in BOOLEAN :
       \E r \in {StoreSave(cmd.cfg, world.file, token, written)} :
           /\ cmd' = [cmd EXCEPT !.cfg = r.cfg,
                                 !.steps = @ + 1,
                                 !.last = [NoLast EXCEPT !.op = "StoreSave", !.token = token,
                                                         !.before = cmd.cfg, !.file = world.file,
                                                         !.writes = world.writes, !.err = r.err]]
           /\ world' = [world EXCEPT !.file = r.file,
                                     !.writes = IF r.wrote THEN @ + 1 ELSE @,
                                     !.failed = IF r.err # NoErr /\ ~token.nil THEN 1 ELSE @]
    /\ UNCHANGED <<commandFrame, calls>>

NextConfig == Load \/ GetCaPool \/ TokenLoad \/ TokenSave

SpecConfig == InitConfig /\ [][NextConfig]_vars

(***************************************************************************)
(* The start of run of the generic commands: the configuration is loaded   *)
(* and the gRPC connection is created from it.                             *)
(***************************************************************************)

GenericCommands == {"get", "create", "edit", "delete", "label", "annotate"}

\* A generic command before it runs.
GenericCommand(name) ==
    [ name |-> "run", command |-> name, phase |-> "start", cfg |-> NilConfig, printed |-> <<>>,
      result |-> Returned(0, NoErr) ]

\* Config.Connect: the token source of the configuration, then the gRPC
\* client, whose Build succeeds or not.
Connect(cfg, dialled) ==
    [ sent |-> <<Invocation(<<"network", "NewGrpcClient">>,
                            [token |-> cfg.AccessToken, pool |-> cfg.caPool])>>,
      err |-> IF dialled THEN NoErr
              ELSE Wrap("failed to create gRPC client", NewError("failed to build the client")) ]

InitRun ==
    /\ InitScanned
    /\ \E name \in GenericCommands : cmd = GenericCommand(name)
    /\ \E file \in Files : world = [file |-> file, writes |-> 0, failed |-> 0]
    /\ calls = <<>>

\* run of a generic command: config.Load, and the test of what it returned.
RunLoad ==
    /\ cmd.name = "run"
    /\ cmd.phase = "start"
    /\ \E outcome \in PoolOutcomes :
       \E r \in {LoadConfig(world.file, outcome, 1)} :
           cmd' = IF r.err # NoErr THEN Done(cmd, <<>>, Returned(1, r.err))
                  ELSE IF r.cfg.nil
                  THEN Done(cmd, <<>>,
                            Returned(1, NewError("there is no configuration, run the 'login' command")))
                  ELSE [cmd EXCEPT !.phase = "connecting", !.cfg = r.cfg]
    /\ UNCHANGED <<commandFrame, world, calls>>

\* run of a generic command: cfg.Connect.
RunConnect ==
    /\ cmd.name = "run"
    /\ cmd.phase = "connecting"
    /\ \E dialled \in BOOLEAN :
       \E r \in {Connect(cmd.cfg, dialled)} :
           /\ calls' = calls \o r.sent
           /\ cmd' = IF r.err # NoErr
                     THEN Done(cmd, <<>>, Returned(1, Wrap("failed to create gRPC connection", r.err)))
                     ELSE [cmd EXCEPT !.phase = "connected"]
    /\ UNCHANGED <<commandFrame, world>>

NextRun == RunLoad \/ RunConnect

SpecRun == InitRun /\ [][NextRun]_vars

(***************************************************************************)
(* Vocabulary of the claims.                                               *)
(***************************************************************************)
\* The services of the catalog with the package of their file.
ServicesOfCatalog ==
    UNION { { [service |-> catalog[i].services[k], pkg |-> catalog[i].pkg, file |-> i, at |-> k] :
                k \in 1..Len(catalog[i].services) } : i \in 1..Len(catalog) }

\* The place of a service in the order of the scan.
ScanRank(name) ==
    LET e == CHOOSE x \in ServicesOfCatalog : x.service.name = name
    IN  e.file * 10 + e.at

\* A field that is present, not repeated and of the given kind.
NonRepeated(message, name, kind) ==
    /\ name \in DOMAIN message
    /\ message[name].card # "repeated"
    /\ message[name].kind = kind

\* The five-method convention, as the claim words it.
Conforming(service) ==
    /\ MethodNames \subseteq DOMAIN service.methods
    /\ NonRepeated(service.methods["Get"].input, "id", "string")
    /\ NonRepeated(service.methods["Delete"].input, "id", "string")
    /\ NonRepeated(service.methods["Get"].output, "object", "message")
    /\ NonRepeated(service.methods["List"].input, "filter", "string")
    /\ LET managed == service.methods["Get"].output["object"].msg
           items == service.methods["List"].output
       IN  /\ "items" \in DOMAIN items
           /\ items["items"] = Field("repeated", "message", managed)
           /\ \A m \in {"Create", "Update"} : \A side \in {"input", "output"} :
                /\ NonRepeated(service.methods[m][side], "object", "message")
                /\ service.methods[m][side]["object"].msg = managed

\* The scan has run to its end.
ScanCompleted == once = "done" /\ scanPos > Len(catalog)

DescriptorsOf(name) == {i \in 1..Len(helpers) : helpers[i].service = name}

\* C1: after the scan the registry holds exactly one descriptor for each
\* service of an enabled package that has the five methods and meets every
\* field rule, and none for any other service; every catalog is scanned to
\* its end.
C1_RegistryHoldsExactlyConforming ==
    /\ \A c \in callers : pc[c] # "panic"
    /\ ScanCompleted =>
         \A e \in ServicesOfCatalog :
            Cardinality(DescriptorsOf(e.service.name)) =
               (IF e.pkg \in DOMAIN packages /\ Conforming(e.service) THEN 1 ELSE 0)

\* C2: a service that breaks a shape rule is skipped without a panic, and the
\* scan goes on with the files that remain.
C2_ViolationSkipsSilently ==
    /\ ~crashed
    /\ \A c \in callers : pc[c] # "panic"
    /\ once = "done" => scanPos = Len(catalog) + 1

\* The match rule of Lookup, as the claim words it: the full name exactly, or
\* an alias with the letter case ignored.
TokenNames(helper, token) ==
    \/ token = FullName(helper.descriptor)
    \/ ToLower(token) = ToLower(ToLower(helper.descriptor.name))
    \/ ToLower(token) = ToLower(ToLower(Plural(helper.descriptor.name)))

Matching(token) == {i \in 1..Len(helpers) : TokenNames(helpers[i], token)}

\* C3: Lookup returns a descriptor that the token names by its exact full
\* name or by an alias in any letter case, and nil exactly when the token
\* names no descriptor.
C3_LookupResolvesToken ==
    \A c \in callers :
        ret[c].op = "Lookup" =>
            /\ (ret[c].helper = 0) <=> (Matching(ret[c].token) = {})
            /\ ret[c].helper # 0 => ret[c].helper \in Matching(ret[c].token)

\* C3, witness: an alias written in upper case has resolved, and the full
\* name written in upper case has not.
C3_Witness ==
    \E c \in callers :
        /\ ret[c].op = "Lookup"
        /\ ret[c].helper # 0
        /\ ret[c].token = ToUpper(helpers[ret[c].helper].singular)
        /\ ret[c].token # helpers[ret[c].helper].singular
        /\ HelperLookup(helpers, ToUpper(FullName(helpers[ret[c].helper].descriptor))) = 0

\* Whether the type of helper a comes before the type of helper b in the
\* order of the listing: lower package order (0 for a package that was given
\* none), then smaller full name.
ListedBefore(a, b) ==
    LET oa == IF a.descriptor.pkg \in DOMAIN packages THEN packages[a.descriptor.pkg] ELSE 0
        ob == IF b.descriptor.pkg \in DOMAIN packages THEN packages[b.descriptor.pkg] ELSE 0
    IN  oa < ob \/ (oa = ob /\ StrLess(FullName(a.descriptor), FullName(b.descriptor)))

\* C4 as stated: of the types that a token names, Lookup returns the one that
\* was scanned first.
C4_FirstScannedWins ==
    \A c \in callers :
        (ret[c].op = "Lookup" /\ ret[c].helper # 0) =>
            \A j \in Matching(ret[c].token) :
                helpers[j].descriptor # helpers[ret[c].helper].descriptor =>
                    ScanRank(helpers[ret[c].helper].service) < ScanRank(helpers[j].service)

\* C4 as amended: Lookup returns the first descriptor of the list that the
\* token names, and after a completed scan no type that the token names is
\* listed before the returned one, whichever was scanned first.
C4_FirstListedWins ==
    \A c \in callers :
        (ret[c].op = "Lookup" /\ ret[c].helper # 0) =>
            /\ \A j \in Matching(ret[c].token) : ret[c].helper <= j
            /\ ScanCompleted =>
                 \A j \in Matching(ret[c].token) :
                    ~ListedBefore(helpers[j], helpers[ret[c].helper])

\* C4, witness: two distinct types share the alias that was looked up, and
\* the one that was returned was scanned after the other.
C4_Witness ==
    \E c \in callers :
        /\ ret[c].op = "Lookup"
        /\ ret[c].helper # 0
        /\ ScanCompleted
        /\ \E j \in Matching(ret[c].token) :
             /\ helpers[j].descriptor # helpers[ret[c].helper].descriptor
             /\ ScanRank(helpers[j].service) < ScanRank(helpers[ret[c].helper].service)

\* The package of a full name: the text before its last dot.
PackageOfName(name) ==
    LET dots == {i \in 1..Len(name) : name[i] = 46}
        last == CHOOSE i \in dots : \A j \in dots : j <= i
    IN  SubSeq(name, 1, last - 1)

\* C5: Names() is ordered by ascending package order and, among the names of
\* one package order, in strictly increasing alphabetical order.
C5_NamesStrictlyOrdered ==
    \A c \in callers :
        ret[c].op = "Names" =>
            \A i, j \in 1..Len(ret[c].list) :
                (/\ i < j
                 /\ PackageOfName(ret[c].list[i]) \in DOMAIN packages
                 /\ PackageOfName(ret[c].list[j]) \in DOMAIN packages) =>
                    LET oi == packages[PackageOfName(ret[c].list[i])]
                        oj == packages[PackageOfName(ret[c].list[j])]
                    IN  oi < oj \/ (oi = oj /\ StrLess(ret[c].list[i], ret[c].list[j]))

\* C6: no listing of Names, Singulars or Plurals holds the same string twice,
\* and the aliases are listed in increasing order.
C6_ListingsSortedWithoutDuplicates ==
    \A c \in callers :
        ret[c].op \in {"Names", "Singulars", "Plurals"} =>
            \A i, j \in 1..Len(ret[c].list) :
                i < j =>
                    /\ ret[c].list[i] # ret[c].list[j]
                    /\ ret[c].op # "Names" => StrLess(ret[c].list[i], ret[c].list[j])

\* C7: the scan body runs at most once, and a goroutine that has come back
\* from scanIfNeeded finds the list of a scan that went through every file
\* and sorted what it found.
C7_ScanOnceAndComplete ==
    /\ scans <= 1
    /\ \A c \in callers :
         (pc[c] = "body" \/ ret[c].op # "none") =>
            /\ scans = 1
            /\ ScanCompleted
            /\ \A i, j \in 1..Len(helpers) : i < j => ~ListedBefore(helpers[j], helpers[i])

\* The path the connection is to see for a method of a descriptor: the
\* service the descriptor was built from, and the method.
OwnPath(c, method) == <<helpers[ret[c].helper].service, method>>

\* C8: every Get, List, Create, Update or Delete calls Invoke exactly once,
\* on the path of the descriptor's own method, whether the server answers
\* with a response or with an error.
C8_OneInvokePerOperation ==
    [][ \A c \in Goroutines :
          /\ Get(c) => (invoked' = invoked + 1 /\ wire'.path = OwnPath(c, "Get"))
          /\ List(c) => (invoked' = invoked + 1 /\ wire'.path = OwnPath(c, "List"))
          /\ Create(c) => (invoked' = invoked + 1 /\ wire'.path = OwnPath(c, "Create"))
          /\ Update(c) => (invoked' = invoked + 1 /\ wire'.path = OwnPath(c, "Update"))
          /\ Delete(c) => (invoked' = invoked + 1 /\ wire'.path = OwnPath(c, "Delete")) ]_vars

\* C8, witness: two operations have run, the last of them a Create that the
\* server failed, and the connection has seen two calls.
C8_Witness ==
    /\ invoked = 2
    /\ \E c \in callers : out[c].op = "Create" /\ out[c].reply.err # NoErr

\* C9: Get and Delete return the error of the transport as it is, so that a
\* not-found answer, and no other failure, makes the delete command print
\* "doesn't exist" and exit with code 1.
C9_NotFoundIsDistinguishable ==
    \A c \in callers :
        out[c].op \in {"Get", "Delete"} =>
            /\ out[c].err = out[c].reply.err
            /\ out[c].op = "Delete" =>
                 ((/\ DeleteReport(out[c].err).printed = "doesn't exist"
                   /\ DeleteReport(out[c].err).exit = 1)
                  <=> out[c].reply.err.code = "NotFound")

\* C9, witness: the server has answered a Delete with not-found.
C9_Witness ==
    \E c \in callers :
        /\ out[c].op = "Delete"
        /\ out[c].reply.err.code = "NotFound"
        /\ DeleteReport(out[c].err).exit = 1

\* The service a descriptor was built from.
ServiceOf(helper) ==
    (CHOOSE e \in ServicesOfCatalog : e.service.name = helper.service).service

\* C10: a List that succeeds returns the items of the response in their
\* order, and as Total the total of the response when the response type has
\* a non-repeated int32 total field, the number of items when it has none.
C10_ListReturnsItemsAndTotal ==
    \A c \in callers :
        (out[c].op = "List" /\ out[c].err = NoErr) =>
            /\ out[c].items = out[c].reply.items
            /\ out[c].total =
                 (IF NonRepeated(ServiceOf(helpers[out[c].helper]).methods["List"].output,
                                 "total", "int32")
                  THEN out[c].reply.total
                  ELSE Len(out[c].reply.items))

\* C10, witness: a List has returned two items and a total that the server
\* reported and that is not the number of items.
C10_Witness ==
    \E c \in callers :
        /\ out[c].op = "List"
        /\ out[c].err = NoErr
        /\ Len(out[c].items) = 2
        /\ out[c].items[1] # out[c].items[2]
        /\ out[c].total = 3

\* The operations of an object descriptor.
ObjectOps == {"Get", "List", "Create", "Update", "Delete"}

\* An operation of goroutine c has come back after the transport failed.
FailedOp(c) == out[c].op \in ObjectOps /\ out[c].reply.err # NoErr

\* C11 as stated: after a transport failure each of the five operations
\* returns the transport error wrapped with a context message, and the
\* status code of the transport error can still be read from it.
C11_EveryErrorIsWrapped ==
    \A c \in callers :
        FailedOp(c) =>
            /\ out[c].err.code = out[c].reply.err.code
            /\ out[c].err.context # <<>>

\* C11 as amended: Create and Update wrap the transport error with a message
\* that names the operation and not the type, Get, List and Delete return
\* the transport error itself, and in all five the status code is kept.
C11_OnlyCreateAndUpdateWrap ==
    \A c \in callers :
        FailedOp(c) =>
            /\ out[c].err.code = out[c].reply.err.code
            /\ out[c].op = "Create" => out[c].err.context = <<"failed to create object">>
            /\ out[c].op = "Update" => out[c].err.context = <<"failed to update object">>
            /\ out[c].op \in {"Get", "List", "Delete"} => out[c].err = out[c].reply.err

\* C11, witness: an Update has failed, and its error carries the message of
\* the operation around the status code of the transport.
C11_Witness ==
    \E c \in callers :
        /\ out[c].op = "Update"
        /\ out[c].reply.err.code = "Unavailable"
        /\ out[c].err.code = "Unavailable"
        /\ out[c].err.context = <<"failed to update object">>

\* The error Build owes to a builder, the inputs looked at in the order
\* logger, connection, packages.
MandatoryError(b) ==
    IF b.logger = "nil" THEN "logger is mandatory"
    ELSE IF b.connection = "nil" THEN "gRPC connection is mandatory"
    ELSE IF DOMAIN b.packages = {} THEN "at least one package is mandatory"
    ELSE ""

\* C12: Build returns the nil helper with the error of the first input that
\* is missing, in the order logger, connection, packages, and with no input
\* missing a helper that holds every input and no error; never both, never
\* a helper with a field left out.
C12_BuildFailsFast ==
    built.done =>
        /\ built.err = MandatoryError(built.from)
        /\ built.err # "" => built.helper = NilHelper
        /\ built.err = "" =>
             /\ built.helper.logger = built.from.logger
             /\ built.helper.connection = built.from.connection
             /\ built.helper.packages = built.from.packages
             /\ DOMAIN built.helper.packages # {}
             /\ built.helper.pluralizer = "set"
             /\ built.helper.scanOnce = "new"
             /\ built.helper.helpers = <<>>
             /\ built.helper.logger # "nil" /\ built.helper.connection # "nil"

\* C12, witness: Build has been called with a logger and with neither a
\* connection nor a package, and has named the connection.
C12_Witness ==
    /\ built.done
    /\ built.from.logger = "set"
    /\ built.from.connection = "nil"
    /\ DOMAIN built.from.packages = {}
    /\ built.err = "gRPC connection is mandatory"
    /\ built.helper = NilHelper

\* Render has been called on a list that is not empty.
Rendering == renders > 0 /\ rendered.messages # <<>>

\* The type of the first message, which is the type Render goes by, and its
\* descriptor in the registry (0: none).
FirstType == rendered.messages[1].type

RenderHelper == HelperLookup(helpers, FullName(FirstType))

\* Every message of the list has the type of the first.
OneType == \A i \in 1..Len(rendered.messages) : rendered.messages[i].type = FirstType

\* The type has a Column Layout resource.
HasLayout(t) == TypeKey(t) \in DOMAIN tablesFS

\* One object of a managed type that has no layout has been rendered.
DefaultRendering ==
    /\ Rendering
    /\ RenderHelper # 0
    /\ ~HasLayout(FirstType)
    /\ Len(rendered.messages) = 1

\* The text of a name, of a timestamp: `-` when it is missing.
OrDash(txt) == IF txt = "" THEN "-" ELSE txt

C14_MixedTypesRejected ==
    (Rendering /\ ~OneType) =>
        /\ rendered.err # NoRenderError
        /\ \A i \in 1..Len(rendered.messages) :
             rendered.messages[i].type # FirstType => Len(rendered.rows) < i + 1

\* The columns Render lays the type of the first message out with: its
\* layout or the default one, with the DELETED column when the mode is on.
LaidOut == TableOf(tablesFS, renderer.includeDeleted, helpers[RenderHelper])

\* The columns of the table whose expression does not compile for the type.
BadColumns ==
    {i \in 1..Len(LaidOut) : ~Compiles(LaidOut[i].Value, helpers[RenderHelper].descriptor)}

\* C15: when the registry does not know the type, Render returns an error
\* that names the type; when the expression of a column does not compile,
\* Render returns an error that names the type, a failing expression and the
\* header of its column; in both cases the writer receives nothing, neither
\* header nor row, no List is sent and Render does not panic.
C15_AbortsBeforeOutput ==
    Rendering =>
        /\ RenderHelper = 0 =>
             /\ rendered.err = RenderError("failed to find object helper for type",
                                           FullName(FirstType), "", "")
             /\ rendered.rows = <<>>
             /\ rendered.sent = <<>>
             /\ ~rendered.panicked
        /\ (RenderHelper # 0 /\ BadColumns # {}) =>
             /\ rendered.err.kind = "failed to compile CEL expression"
             /\ rendered.err.type = FullName(FirstType)
             /\ \E i \in BadColumns :
                  /\ rendered.err.expr = LaidOut[i].Value
                  /\ rendered.err.header = LaidOut[i].Header
             /\ rendered.rows = <<>>
             /\ rendered.sent = <<>>
             /\ ~rendered.panicked

\* C15, witness: a list of a type whose layout has a column that does not
\* compile has been rendered; the error names the column BAD and the writer
\* has received nothing.
C15_Witness ==
    /\ Rendering
    /\ RenderHelper # 0
    /\ BadColumns # {}
    /\ rendered.err.header = "BAD"
    /\ rendered.rows = <<>>

\* The registry does not know the type of the list that has been rendered.
UnknownTypeRendered ==
    /\ Rendering
    /\ RenderHelper = 0
    /\ rendered.err.type = FullName(FirstType)

\* The headers of a list of columns, as cells.
HeaderCells(cols) == [i \in 1..Len(cols) |-> TextCell(cols[i].Header)]

\* The columns of the type of the first message before any column is added:
\* its layout if it has one, the default layout otherwise.
OwnColumns == IF HasLayout(FirstType) THEN tablesFS[TypeKey(FirstType)] ELSE defaultTable

\* Where the header row of the last table has the cell DELETED.
DeletedAt == {i \in 1..Len(rendered.rows[1]) : rendered.rows[1][i] = TextCell("DELETED")}

DefaultDeletedRendered ==
    /\ renders = 2
    /\ Rendering
    /\ renderer.includeDeleted
    /\ ~HasLayout(FirstType)
    /\ rendered.rows # <<>>
    /\ rendered.rows[1] = <<TextCell("ID"), TextCell("DELETED"), TextCell("NAME")>>

\* The last call of Render got as far as the rows: one type, known to the
\* registry, every column compiled.
RowsRendered == Rendering /\ OneType /\ RenderHelper # 0 /\ BadColumns = {}

\* The cell of column i of message k is in what the writer has received.
CellWritten(k, i) == k + 1 <= Len(rendered.rows) /\ i <= Len(rendered.rows[k + 1])

\* Column i is an integer column that names an enum type the registry of
\* types has.
EnumColumn(i) ==
    /\ LaidOut[i].Type \in DOMAIN EnumTypes
    /\ Eval(LaidOut[i].Value, rendered.messages[1]).kind = "int"

\* The text C17 displays for a name of an enum: with P the text before the
\* last underscore of the name of the zero value, the name without P and the
\* underscore when it starts with both, the whole name otherwise.
Displayed(enumDesc, number) ==
    LET name == enumDesc[number]
        last == LastIndex(enumDesc[0])
    IN  IF last # 0 /\ HasPrefix(name, SubSeq(enumDesc[0], 1, last))
        THEN SubSeq(name, last + 1, Len(name))
        ELSE name

\* C17: the cell of a member of the enum type of its column shows the name
\* of the member without the common prefix and its underscore, and shows a
\* name that does not have that prefix whole.
C17_EnumPrefixStripped ==
    RowsRendered =>
        \A k \in 1..Len(rendered.messages), i \in 1..Len(LaidOut) :
            ( /\ CellWritten(k, i)
              /\ EnumColumn(i)
              /\ rendered.messages[k].state \in DOMAIN EnumTypes[LaidOut[i].Type] ) =>
                rendered.rows[k + 1][i] =
                    Cell("", -1, Displayed(EnumTypes[LaidOut[i].Type], rendered.messages[k].state))

\* CLUSTER_STATE_READY of ClusterState has been rendered as READY.
ReadyRendered ==
    /\ RowsRendered
    /\ \E k \in 1..Len(rendered.messages), i \in 1..Len(LaidOut) :
         /\ CellWritten(k, i)
         /\ LaidOut[i].Type = "ClusterState"
         /\ rendered.messages[k].state = 1
         /\ rendered.rows[k + 1][i] = Cell("", -1, <<82, 69, 65, 68, 89>>)

\* Column i of message k is an integer cell whose number is not one of the
\* enum type of the column.
UnknownNumber(k, i) ==
    /\ EnumColumn(i)
    /\ rendered.messages[k].state \notin DOMAIN EnumTypes[LaidOut[i].Type]

\* The writer has received the header and a whole row for every message.
WholeTable ==
    /\ Len(rendered.rows) = Len(rendered.messages) + 1
    /\ \A j \in 1..Len(rendered.rows) : Len(rendered.rows[j]) = Len(LaidOut)

\* C18: a cell whose number is not one of the enum type of its column shows
\* UNKNOWN:<n> and nothing else, and the table is rendered to its end:
\* Render returns without an error and without a panic, and every row is
\* whole.
C18_UnknownNumberRendered ==
    RowsRendered =>
        \A k \in 1..Len(rendered.messages), i \in 1..Len(LaidOut) :
            UnknownNumber(k, i) =>
                /\ CellWritten(k, i)
                /\ rendered.rows[k + 1][i] = Cell("UNKNOWN:", rendered.messages[k].state, <<>>)
                /\ ~rendered.panicked
                /\ rendered.err = NoRenderError
                /\ WholeTable

\* A cell UNKNOWN:7 has been written, and Render has panicked after it.
UnknownThenPanic ==
    /\ RowsRendered
    /\ rendered.panicked
    /\ \E k \in 1..Len(rendered.messages), i \in 1..Len(LaidOut) :
         /\ UnknownNumber(k, i)
         /\ CellWritten(k, i)
         /\ rendered.rows[k + 1][i] = Cell("UNKNOWN:", 7, <<>>)
         /\ Len(rendered.rows[k + 1]) = i
         /\ Len(rendered.rows) = k + 1

\* Column i is a lookup column: a string column flagged as a lookup that
\* names a message type the registry of types has.
LookupColumn(i) ==
    /\ LaidOut[i].Lookup
    /\ LaidOut[i].Type # ""
    /\ FindMessageByName(LaidOut[i].Type) # NoType
    /\ Eval(LaidOut[i].Value, rendered.messages[1]).kind = "string"

\* The identifier that column i of message k refers to, the full name of the
\* type it refers into, and the entry of the cache for the two.
KeyOf(k, i) == Eval(LaidOut[i].Value, rendered.messages[k]).s

Referenced(i) == FullName(FindMessageByName(LaidOut[i].Type))

RefOf(k, i) == <<Referenced(i), KeyOf(k, i)>>

\* The log of the last call of Render has an entry for the type, and for the
\* key when the entry has one.
Logged(type, key) ==
    \E j \in 1..Len(rendered.logs) :
        rendered.logs[j].type = type /\ rendered.logs[j].key \in {key, ""}

\* No cell of the table is an integer that its enum type does not have.
NoUnknownNumber ==
    \A k \in 1..Len(rendered.messages), i \in 1..Len(LaidOut) : ~UnknownNumber(k, i)

\* C19: the lookup cells never make Render fail, and a lookup cell whose
\* reference is looked up in this call shows the name of the object when the
\* List returned exactly one, and shows the identifier itself, with the
\* failure in the log, when the List returned none, when it failed, or when
\* the registry has no descriptor for the referenced type.
C19_LookupDegrades ==
    RowsRendered =>
        /\ NoUnknownNumber =>
             ~rendered.panicked /\ rendered.err = NoRenderError /\ WholeTable
        /\ \A k \in 1..Len(rendered.messages), i \in 1..Len(LaidOut) :
             ( /\ LookupColumn(i)
               /\ CellWritten(k, i)
               /\ KeyOf(k, i) # ""
               /\ RefOf(k, i) \notin DOMAIN rendered.before ) =>
                 LET key == KeyOf(k, i)
                     reply == rendered.server[key]
                     shown == rendered.rows[k + 1][i]
                 IN  IF HelperLookup(helpers, Referenced(i)) = 0
                     THEN shown = TextCell(key) /\ Logged(Referenced(i), key)
                     ELSE IF reply.err # NoErr \/ Len(reply.items) = 0
                     THEN shown = TextCell(key) /\ Logged(Referenced(i), key)
                     ELSE Len(reply.items) = 1 => shown = TextCell(reply.items[1].name)

\* A reference that matches no object has been shown as it is, and the log
\* of the call is empty.
MissingNotLogged ==
    /\ RowsRendered
    /\ rendered.logs = <<>>
    /\ \E k \in 1..Len(rendered.messages), i \in 1..Len(LaidOut) :
         /\ LookupColumn(i)
         /\ CellWritten(k, i)
         /\ KeyOf(k, i) = "k1"
         /\ RefOf(k, i) \notin DOMAIN rendered.before
         /\ rendered.server["k1"] = NoReply
         /\ rendered.sent # <<>>
         /\ rendered.rows[k + 1][i] = TextCell("k1")

\* The List calls issued for the references of S, all together.
RECURSIVE ListsFor(_)
ListsFor(S) ==
    IF S = {} THEN 0
    ELSE LET ref == CHOOSE x \in S : TRUE IN lookups[ref] + ListsFor(S \ {ref})

\* Every lookup cell the writer has received shows what the cache holds for
\* its reference, which for a reference cached by an earlier call is the text
\* that call cached; a cell with an empty reference shows `-`.
CachedTextShown ==
    RowsRendered =>
        \A k \in 1..Len(rendered.messages), i \in 1..Len(LaidOut) :
            (LookupColumn(i) /\ CellWritten(k, i)) =>
                IF KeyOf(k, i) = ""
                THEN rendered.rows[k + 1][i] = TextCell("-")
                ELSE /\ RefOf(k, i) \in DOMAIN renderer.cache
                     /\ rendered.rows[k + 1][i] = TextCell(renderer.cache[RefOf(k, i)])
                     /\ RefOf(k, i) \in DOMAIN rendered.before =>
                          rendered.rows[k + 1][i] = TextCell(rendered.before[RefOf(k, i)])

\* A call of Render leaves the entries of the cache as they are, and issues
\* no List for a reference the cache has.
CacheKept ==
    \A ref \in DOMAIN renderer.cache :
        /\ ref \in DOMAIN renderer'.cache
        /\ renderer'.cache[ref] = renderer.cache[ref]
        /\ ref \in LookupRefs => lookups'[ref] = lookups[ref]

\* C20: over the life of a renderer at most one List is issued for each
\* referenced type and key, whatever the first one returned; the calls for
\* the references are all the calls there are, so an empty reference issues
\* none; an entry of the cache never changes, and every later cell of a
\* reference shows the text of the first one.
C20_OneListPerReference ==
    /\ [](/\ \A ref \in LookupRefs : lookups[ref] <= 1
          /\ invoked = ListsFor(LookupRefs)
          /\ CachedTextShown)
    /\ [][CacheKept]_vars

\* C20, witness: the second call of Render has shown, without any List, the
\* name that the first call had found for the Boss k1 with its one List.
C20_Witness ==
    /\ renders = 2
    /\ RowsRendered
    /\ rendered.sent = <<>>
    /\ <<FullName(TypeBossF), "k1">> \in DOMAIN rendered.before
    /\ rendered.before[<<FullName(TypeBossF), "k1">>] = "x"
    /\ lookups[<<FullName(TypeBossF), "k1">>] = 1
    /\ \E k \in 1..Len(rendered.messages), i \in 1..Len(LaidOut) :
         /\ LookupColumn(i)
         /\ CellWritten(k, i)
         /\ RefOf(k, i) = <<FullName(TypeBossF), "k1">>
         /\ rendered.rows[k + 1][i] = TextCell("x")

\* The same key has been looked up in two types, with one List for each.
TwoTypesOneKey ==
    /\ lookups[<<FullName(TypeBossF), "k1">>] = 1
    /\ lookups[<<FullName(TypeKeyF), "k1">>] = 1
    /\ invoked = 2

\* The cell of an empty reference has been written, and no List has been
\* issued.
EmptyReferenceRendered ==
    /\ RowsRendered
    /\ invoked = 0
    /\ \E k \in 1..Len(rendered.messages), i \in 1..Len(LaidOut) :
         /\ LookupColumn(i)
         /\ CellWritten(k, i)
         /\ KeyOf(k, i) = ""
         /\ rendered.rows[k + 1][i] = TextCell("-")

\* Column i of message k is a lookup cell that the writer has received and
\* whose reference was looked up in the last call of Render, in a type the
\* registry manages: its List was sent and got the answer of the server.
LookedUp(k, i) ==
    /\ LookupColumn(i)
    /\ CellWritten(k, i)
    /\ KeyOf(k, i) # ""
    /\ RefOf(k, i) \notin DOMAIN rendered.before
    /\ HelperLookup(helpers, Referenced(i)) # 0

\* C21: when the context is cancelled while the List of a lookup cell is in
\* flight, the List ends with the error Canceled and Render returns an
\* error.
C21_CancellationEndsRender ==
    RowsRendered =>
        \A k \in 1..Len(rendered.messages), i \in 1..Len(LaidOut) :
            (LookedUp(k, i) /\ rendered.server[KeyOf(k, i)].err.code = "Canceled") =>
                rendered.err # NoRenderError

\* The List of a lookup cell was cancelled, and Render has written the whole
\* table and returned nil, the cell showing the key.
CancelledRenderCompleted ==
    /\ RowsRendered
    /\ WholeTable
    /\ rendered.err = NoRenderError
    /\ ~rendered.panicked
    /\ \E k \in 1..Len(rendered.messages), i \in 1..Len(LaidOut) :
         /\ LookedUp(k, i)
         /\ rendered.server[KeyOf(k, i)].err.code = "Canceled"
         /\ rendered.rows[k + 1][i] = TextCell(KeyOf(k, i))

\* C23: when the List of a lookup cell returns more than one object, the
\* cell shows the key it was given.
C23_SeveralMatchesShowKey ==
    RowsRendered =>
        \A k \in 1..Len(rendered.messages), i \in 1..Len(LaidOut) :
            ( /\ LookedUp(k, i)
              /\ rendered.server[KeyOf(k, i)].err = NoErr
              /\ Len(rendered.server[KeyOf(k, i)].items) > 1 ) =>
                rendered.rows[k + 1][i] = TextCell(KeyOf(k, i))

\* The List of the reference k2 returned two objects, and the cell shows the
\* name of the first of them.
FirstMatchShown ==
    /\ RowsRendered
    /\ \E k \in 1..Len(rendered.messages), i \in 1..Len(LaidOut) :
         /\ LookedUp(k, i)
         /\ KeyOf(k, i) = "k2"
         /\ Len(rendered.server["k2"].items) = 2
         /\ rendered.rows[k + 1][i] = TextCell("y")

\* The message of a managed type with no field set.
ZeroObject == [id |-> "", name |-> ""]

\* The templates of the descriptor are zero-valued.
ZeroTemplates(h) ==
    /\ h.template = ZeroObject
    /\ h.get.request = [id |-> ""]
    /\ h.get.response = [object |-> ZeroObject]
    /\ h.list.request = [filter |-> "", limit |-> 0]
    /\ h.list.response = [items |-> <<>>, total |-> 0]
    /\ h.create.request = [object |-> ZeroObject]
    /\ h.create.response = [object |-> ZeroObject]
    /\ h.update.request = [object |-> ZeroObject]
    /\ h.update.response = [object |-> ZeroObject]
    /\ h.delete.request = [id |-> ""]
    /\ h.delete.response = <<>>

\* The request that the call of goroutine c has to send, from what the
\* goroutine passed to it and nothing else.
OwnRequest(o, h) ==
    CASE o.op = "List" ->
            [ filter |-> o.args.Filter,
              limit |-> IF o.args.Limit > 0 /\ h.list.limit # NoField THEN o.args.Limit ELSE 0 ]
      [] o.op \in {"Get", "Delete"} -> [id |-> o.args.id]
      [] OTHER -> [object |-> o.args.object]

\* C22: the templates of every descriptor are zero-valued in every state,
\* and Instance returns the empty message of the type; no call of Get, List,
\* Create, Update, Delete or Instance changes a descriptor, and the request
\* of each call holds what was passed to that call and nothing of an
\* earlier one.
C22_TemplatesNeverMutated ==
    /\ [](/\ \A i \in 1..Len(helpers) : ZeroTemplates(helpers[i])
          /\ \A c \in callers : out[c].op = "Instance" => out[c].object = ZeroObject)
    /\ [][ \A c \in Goroutines :
             /\ (Get(c) \/ List(c) \/ Create(c) \/ Update(c) \/ Delete(c)) =>
                  /\ helpers' = helpers
                  /\ wire'.request = OwnRequest(out'[c], helpers[out'[c].helper])
             /\ Instance(c) => (helpers' = helpers /\ wire' = wire /\ invoked' = invoked) ]_vars

\* C22, witness: the connection has seen two calls, the last one a List with
\* no filter and no limit whose request is zero-valued, on a descriptor whose
\* templates are zero-valued.
C22_Witness ==
    /\ invoked = 2
    /\ \E c \in callers :
         /\ out[c].op = "List"
         /\ out[c].args = [Filter |-> "", Limit |-> 0]
         /\ wire = Invocation(helpers[out[c].helper].list.path, [filter |-> "", limit |-> 0])
         /\ ZeroTemplates(helpers[out[c].helper])

\* The positions of the calls of one method among the RPCs of the command.
CallsOf(method) == {i \in 1..Len(calls) : calls[i].path[2] = method}

\* The objects of the server that a reference matches, by identifier or name.
ServerMatches(ref) == {o \in world.objects : o.id = ref \/ o.name = ref}

\* The delete command runs, or has run.
Deleting == cmd # <<>> /\ cmd.name = "delete"

\* C24: the delete command issues at most one List, before any Delete; the
\* step that resolves the references issues no Delete, and goes on to delete
\* only when every reference matches exactly one object of the server, which
\* is the object it will delete; when a reference has no match or several,
\* and the List succeeded, the command returns after it printed the template
\* of a reference that is not resolved, and no Delete was issued.
C24_NoDeleteUnlessAllResolved ==
    /\ [](Deleting =>
            /\ Cardinality(CallsOf("List")) <= 1
            /\ CallsOf("Delete") # {} => (calls[1].path[2] = "List" /\ cmd.objects # <<>>)
            /\ (/\ cmd.phase = "done"
                /\ \E i \in 1..Len(cmd.printed) :
                       cmd.printed[i].text \in {"no_matches.txt", "multiple_matches.txt"})
               => CallsOf("Delete") = {})
    /\ [][(Deleting /\ cmd.phase = "start" /\ cmd' # cmd) =>
            LET refs == cmd.args.refs IN
            /\ \A i \in 1..Len(calls') : calls'[i].path[2] # "Delete"
            /\ cmd'.phase = "deleting" =>
                   \A i \in 1..Len(refs) :
                       /\ Cardinality(ServerMatches(refs[i])) = 1
                       /\ cmd'.objects[i] \in ServerMatches(refs[i])
            /\ (/\ Len(calls') = 1
                /\ cmd'.result.err = NoErr
                /\ \E i \in 1..Len(refs) : Cardinality(ServerMatches(refs[i])) # 1)
               => /\ cmd'.phase = "done"
                  /\ \E k \in 1..Len(refs) :
                       /\ Cardinality(ServerMatches(refs[k])) # 1
                             \/ \E j \in 1..Len(refs) : j # k /\ refs[j] = refs[k]
                       /\ cmd'.printed =
                            << Printed(IF ServerMatches(refs[k]) = {} THEN "no_matches.txt"
                                       ELSE "multiple_matches.txt", refs[k]) >>
          ]_vars

\* A reference resolved and another had several matches: the command printed
\* the second and deleted nothing.
C24_Witness ==
    /\ Deleting
    /\ cmd.phase = "done"
    /\ cmd.args.refs = <<"b", "x">>
    /\ Cardinality(world.objects) = 3
    /\ cmd.printed = <<Printed("multiple_matches.txt", "x")>>
    /\ Cardinality(CallsOf("List")) = 1
    /\ CallsOf("Delete") = {}

\* Two references resolved to two objects, and both were deleted.
TwoDeleted ==
    /\ Deleting
    /\ cmd.phase = "done"
    /\ cmd.result = Returned(0, NoErr)
    /\ Len(calls) = 3
    /\ calls[2].request.id # calls[3].request.id

\* C25: in one run of the delete command no two Delete RPCs carry the same
\* object identifier.
C25_OneDeletePerObject ==
    Deleting =>
        \A i, j \in CallsOf("Delete") : calls[i].request.id = calls[j].request.id => i = j

\* An identifier and a name resolved to one object: the second Delete of it
\* found nothing and the command failed.
DeletedTwice ==
    /\ Deleting
    /\ cmd.phase = "done"
    /\ cmd.args.refs = <<"a", "x">>
    /\ Len(calls) = 3
    /\ calls[2].request.id = "a"
    /\ calls[3].request.id = "a"
    /\ cmd.printed = <<Printed("Deleted", "a"), Printed("doesn't exist", "a")>>
    /\ cmd.result = Returned(1, NoErr)

\* The label or the annotate command runs, or has run.
Labelling == cmd # <<>> /\ cmd.name \in {"label", "annotate"}

\* The positions of '=' in the text of an operation.
Equals(text) == {i \in 1..Len(text) : text[i] = "="}

\* The text of an operation is 'key=value' or 'key-' with a key that is not
\* empty.
WellFormed(text) ==
    \/ Equals(text) # {} /\ 1 \notin Equals(text)
    \/ Equals(text) = {} /\ Len(text) >= 2 /\ text[Len(text)] = "-"

\* The key of a well formed operation, and the value it sets.
KeyIn(text) ==
    IF Equals(text) # {} THEN SubSeq(text, 1, (CHOOSE i \in Equals(text) : \A j \in Equals(text) : i <= j) - 1)
    ELSE SubSeq(text, 1, Len(text) - 1)

ValueIn(text) ==
    SubSeq(text, (CHOOSE i \in Equals(text) : \A j \in Equals(text) : i <= j) + 1, Len(text))

\* The last operation on a key, 0 when there is none.
LastOn(ops, key) ==
    LET on == {i \in 1..Len(ops) : KeyIn(ops[i]) = key}
    IN  IF on = {} THEN 0 ELSE CHOOSE i \in on : \A j \in on : j <= i

\* The entries of a map after the operations, a later operation on a key
\* overriding an earlier one.
EntriesAfter(entries, ops) ==
    LET keys == {k \in DOMAIN entries \cup {KeyIn(ops[i]) : i \in 1..Len(ops)} :
                    IF LastOn(ops, k) = 0 THEN k \in DOMAIN entries
                    ELSE Equals(ops[LastOn(ops, k)]) # {}}
    IN  [k \in keys |-> IF LastOn(ops, k) = 0 THEN entries[k] ELSE ValueIn(ops[LastOn(ops, k)])]

\* The map that the command changes, in an object.
MapIn(object) == IF cmd.name = "label" THEN object.labels ELSE object.annotations

\* C26: the label and annotate commands issue no RPC when an operation is
\* not 'key=value' or 'key-' with a key that is not empty, and then fail;
\* an Update follows one List that returned exactly one object, and carries
\* that object with the operations applied in argument order; after the
\* template for no match or several matches no Update was issued.
C26_UpdateAfterParseAndOneMatch ==
    Labelling =>
        /\ (\E i \in 1..Len(cmd.args.ops) : ~WellFormed(cmd.args.ops[i]))
           => /\ calls = <<>>
              /\ cmd.phase = "done" => cmd.result.err # NoErr
        /\ CallsOf("Update") # {}
           => /\ Len(calls) = 2
              /\ calls[1].path[2] = "List"
              /\ Len(cmd.objects) = 1
              /\ MapIn(calls[2].request.object).entries
                   = EntriesAfter(MapIn(cmd.objects[1]).entries, cmd.args.ops)
        /\ (\E i \in 1..Len(cmd.printed) :
                cmd.printed[i].text \in {"no_matches.txt", "multiple_matches.txt"})
           => CallsOf("Update") = {}

\* The label command took '=v' for an operation and saved the label with
\* the empty key.
EmptyLabelSaved ==
    /\ Labelling
    /\ cmd.name = "label"
    /\ cmd.phase = "done"
    /\ cmd.args.ops = << <<"=", "v">> >>
    /\ cmd.result = Returned(0, NoErr)
    /\ Len(calls) = 2
    /\ calls[2].path[2] = "Update"
    /\ <<>> \in DOMAIN calls[2].request.object.labels.entries

\* The same claim for the annotate command alone.
AnnotateAfterParseAndOneMatch == (Labelling /\ cmd.name = "annotate") => C26_UpdateAfterParseAndOneMatch

\* The annotate command applied two operations on one key, and the second
\* decided.
AnnotatedInOrder ==
    /\ Labelling
    /\ cmd.name = "annotate"
    /\ cmd.phase = "done"
    /\ cmd.args.ops = << <<"k", "=", "v">>, <<"k", "-">> >>
    /\ Len(calls) = 2
    /\ DOMAIN calls[2].request.object.annotations.entries = {}

\* The get command watches, or has watched.
Watching == cmd # <<>> /\ cmd.name = "watch"

\* The field of the event for the type that is watched, "" when the type has
\* none.
WatchedField ==
    IF cmd.args.type = ToLower(TypeHubF.name) THEN "hub"
    ELSE IF cmd.args.type = ToLower(TypeBossF.name) THEN "boss"
    ELSE ""

\* What the command has displayed when it received the first n responses of
\* the stream: the events with an object, once each, in their order.
Shown(n) ==
    LET kept == SelectSeq(SubSeq(world.stream, 1, n),
                          LAMBDA r : r.err = NoErr /\ r.event.present
                                     /\ r.event.payload.kind \in {"hub", "boss"})
    IN  [i \in 1..Len(kept) |-> Printed("event", kept[i].event.payload.id)]

\* The response that the loop received last.
LastReceived == world.stream[cmd.pos - 1]

\* C27: watching a type without event field fails with no stream opened;
\* with no keys the filter is has(event.<field>); the command has displayed
\* exactly the events with a supported payload among the responses it
\* received, in order; it returns nil only after EOF, and the wrapped error
\* after every other error of Recv, cancellation included; after a response
\* that is not an error the loop goes on with the next one.
C27_WatchLoop ==
    /\ [](Watching =>
            /\ WatchedField = ""
               => /\ calls = <<>>
                  /\ cmd.phase # "receiving"
                  /\ cmd.phase = "done" => cmd.result.err # NoErr
            /\ (calls # <<>> /\ cmd.args.keys = <<>>)
               => calls[1].request.filter = "has(event." \o WatchedField \o ")"
            /\ (calls # <<>> /\ world.opens)
               => cmd.printed = <<Printed("Watching for changes", "")>> \o Shown(cmd.pos - 1)
            /\ (cmd.phase = "done" /\ cmd.result = Returned(0, NoErr))
               => cmd.pos > 1 /\ LastReceived.err.code = "EOF"
            /\ (cmd.phase = "done" /\ cmd.pos > 1 /\ LastReceived.err.code # "EOF")
               => cmd.result = Returned(1, Wrap("failed to receive event", LastReceived.err)))
    /\ [][(Watching /\ cmd.phase = "receiving" /\ world.stream[cmd.pos].err = NoErr)
            => (cmd'.phase = "receiving" /\ cmd'.pos = cmd.pos + 1)]_vars

\* The stream held an event of a payload that is not supported, then an
\* event with a hub, then its end: the hub was displayed, and nil returned.
C27_Witness ==
    /\ Watching
    /\ cmd.phase = "done"
    /\ cmd.args.keys = <<>>
    /\ Len(world.stream) = 3
    /\ world.stream[1].event.payload.kind = "other"
    /\ world.stream[2].event.payload.kind = "hub"
    /\ world.stream[3].err.code = "EOF"
    /\ cmd.printed = <<Printed("Watching for changes", ""), Printed("event", "a")>>
    /\ cmd.result = Returned(0, NoErr)

\* The context was cancelled while the loop waited: the error was returned.
WatchCancelled ==
    /\ Watching
    /\ cmd.phase = "done"
    /\ cmd.pos = 2
    /\ cmd.result = Returned(1, Wrap("failed to receive event", [code |-> "Canceled", context |-> <<>>]))

\* A type without event field was watched.
WatchUnsupported ==
    /\ Watching
    /\ cmd.phase = "done"
    /\ WatchedField = ""
    /\ cmd.result.err.context = <<"failed to build event filter", "object type is not supported for watching">>

\* A process uses the configuration it loaded.
UsingConfig == cmd # <<>> /\ cmd.name = "config"

\* C28: a call of Config.CaPool that returns no error returns a pool that is
\* not nil and is the pool the configuration holds; when the configuration
\* held a pool before the call, it is that pool.
C28_CaPoolCreatedOnce ==
    (UsingConfig /\ cmd.last.op = "CaPool" /\ cmd.last.err = NoErr) =>
        /\ cmd.last.pool.set
        /\ cmd.cfg.caPool = cmd.last.pool
        /\ cmd.last.before.caPool.set => cmd.last.pool = cmd.last.before.caPool

\* CaPool was called on a configuration without pool, and returned nil and
\* no error.
PoolNotCreated ==
    /\ UsingConfig
    /\ cmd.last.op = "CaPool"
    /\ cmd.last.err = NoErr
    /\ ~cmd.last.before.caPool.set
    /\ ~cmd.last.pool.set
    /\ ~cmd.cfg.caPool.set

\* CaPool was called on a configuration with a pool, and built another.
PoolRebuilt ==
    /\ UsingConfig
    /\ cmd.last.op = "CaPool"
    /\ cmd.last.err = NoErr
    /\ cmd.last.before.caPool = Pool(1)
    /\ cmd.last.pool = Pool(2)

\* The token that a configuration holds and the token that the file holds:
\* access, refresh and the instant of the expiry.
TokenIn(cfg) == <<cfg.AccessToken, cfg.RefreshToken, cfg.TokenExpiry.instant>>

TokenOn(file) == <<file.access_token, file.refresh_token, file.token_expiry>>

\* The last call was Save of the token store, with a token.
Saved == UsingConfig /\ cmd.last.op = "StoreSave" /\ ~cmd.last.token.nil

\* The token of the last Save has the fields that the configuration held.
SameAsStored ==
    /\ cmd.last.token.Access = cmd.last.before.AccessToken
    /\ cmd.last.token.Refresh = cmd.last.before.RefreshToken
    /\ cmd.last.token.Expiry = cmd.last.before.TokenExpiry

\* The statements of the token store about the call that was made last.
StoreKeepsConsistent ==
    /\ (UsingConfig /\ cmd.last.op = "StoreSave" /\ cmd.last.token.nil)
       => /\ cmd.last.err # NoErr
          /\ cmd.cfg = cmd.last.before
          /\ world.file = cmd.last.file
          /\ world.writes = cmd.last.writes
    /\ (Saved /\ SameAsStored)
       => /\ cmd.last.err = NoErr
          /\ cmd.cfg = cmd.last.before
          /\ world.file = cmd.last.file
          /\ world.writes = cmd.last.writes
    /\ (Saved /\ ~SameAsStored)
       => /\ cmd.cfg = [cmd.last.before EXCEPT !.AccessToken = cmd.last.token.Access,
                                               !.RefreshToken = cmd.last.token.Refresh,
                                               !.TokenExpiry = cmd.last.token.Expiry]
          /\ world.writes = cmd.last.writes + 1
          /\ TokenOn(world.file) = TokenIn(cmd.cfg)
    /\ (Saved /\ cmd.last.err = NoErr) => TokenOn(world.file) = TokenIn(cmd.cfg)
    /\ (UsingConfig /\ cmd.last.op = "StoreLoad")
       => cmd.last.result =
            IF cmd.last.before.AccessToken = "" THEN NilToken
            ELSE Token(cmd.last.before.AccessToken, cmd.last.before.RefreshToken,
                       cmd.last.before.TokenExpiry)

\* A Load that follows a Save which returned no error, of a token with an
\* access token, returns that token.
LoadAfterSave ==
    (/\ Saved
     /\ cmd.last.err = NoErr
     /\ cmd.last.token.Access # ""
     /\ cmd'.last.op = "StoreLoad")
    => cmd'.last.result = cmd.last.token

\* C29: Save(nil) returns an error and changes nothing; Save of the stored
\* token changes nothing and writes nothing; every other Save replaces the
\* three fields and writes the file, so that the file holds the token of the
\* configuration after every Save that returned no error; Load returns the
\* stored token, nil when its access token is empty, and after a successful
\* Save of a token with an access token it returns that token.
C29_StoreConsistent == []StoreKeepsConsistent /\ [][LoadAfterSave]_vars

\* The same, as long as no write of the file has failed.
StoreConsistentWhileWritten == []((UsingConfig /\ world.failed = 0) => StoreKeepsConsistent) /\ [][LoadAfterSave]_vars

\* A Save failed to write the file, and the Save of the same token that
\* followed returned no error and wrote nothing: the file does not hold the
\* token of the configuration.
SavedButNotWritten ==
    /\ Saved
    /\ cmd.last.err = NoErr
    /\ SameAsStored
    /\ cmd.last.token.Access = "t1"
    /\ world.failed = 1
    /\ world.writes = 0
    /\ TokenOn(world.file) # TokenIn(cmd.cfg)

\* A generic command runs, or has run.
Running == cmd # <<>> /\ cmd.name = "run"

\* C30: when there is no configuration file, a generic command makes no
\* attempt to create the gRPC connection, and it ends with the error "there
\* is no configuration, run the 'login' command" as soon as it has loaded
\* the configuration.
C30_NoConfigurationNoConnection ==
    (Running /\ world.file.state = "absent") =>
        /\ calls = <<>>
        /\ cmd.phase \in {"start", "done"}
        /\ cmd.phase = "done"
           => cmd.result = Returned(1, NewError("there is no configuration, run the 'login' command"))

\* Without configuration file the command went on to create the connection
\* from an empty configuration, and the creation failed.
ConnectedWithoutConfiguration ==
    /\ Running
    /\ world.file.state = "absent"
    /\ cmd.phase = "done"
    /\ cmd.cfg = EmptyConfig
    /\ Len(calls) = 1
    /\ cmd.result.err.context[1] = "failed to create gRPC connection"

====
